---- MODULE Spec2Model ----
(***************************************************************************)
(* The network event loop of binary-souls (crates/network): one task owns  *)
(* the libp2p swarm, takes commands from Client handles over a futures     *)
(* mpsc channel, forwards inbound agent requests to the application over a *)
(* second mpsc channel, and matches asynchronous swarm events to the       *)
(* one-shot reply sinks kept in four pending tables.                       *)
(*                                                                         *)
(* The swarm is a library outside the repository.  Its events are the      *)
(* loop's inputs: every event of the modelled kinds may be delivered with  *)
(* any identifier of the bounded domain.  libQ / libR record what the      *)
(* library itself holds (queries and requests it was asked to run), so a   *)
(* property can tell an event for an id the library holds from one for an  *)
(* id it does not hold.                                                    *)
(***************************************************************************)
EXTENDS Integers, Sequences, FiniteSets, TLC

\* ---- bounds -------------------------------------------------------------
MaxCmds == 2
\* number of handle calls (each from its own clone of the Client)
MaxPeers == 2
\* remote peer ids
MaxBodies == 2
\* distinct response bodies
MaxInbound == 2
\* inbound agent requests the swarm delivers
MaxHandles == 2
\* clones of the Client that make calls

Cmds == 1..MaxCmds
Peers == 1..MaxPeers
Bodies == 1..MaxBodies
Ids == 1..MaxCmds
\* kad::QueryId / OutboundRequestId values the library hands out
Chans == 1..MaxInbound
\* ResponseChannel values of inbound requests
Names == {"weather", "nobody"}
\* agent names; RemoteProviders says who provides them in the DHT

RemoteProviders(name) ==
    IF name = "weather" THEN {1} ELSE {}

Handles == 1..MaxHandles
\* the Client and its clones, numbered in the order they first make a call
NoHandle == 0
\* no Client
NoPeer == 0
\* Option<PeerId>::None
NoName == "-"
NoBody == 0
\* no response body
NoChan == 0
\* no ResponseChannel
NoCookie == 0
\* Option<rendezvous::Cookie>::None
MaxCookies == 2
MaxAbandoned == 1
\* handle calls whose future is dropped before the reply
Cookies == 1..MaxCookies
NAMESPACE == "binary-souls"
\* eventloop.rs static NAMESPACE
Namespaces == {NAMESPACE, "other"}
NoNamespace == "None"
\* Option<rendezvous::Namespace>::None
MaxTransports == 1
MaxDials == 3
\* addresses listed by one Discovered event
\* a Multiaddr is the sequence of its protocols: a transport part, then any
\* number of /p2p/<peer id>
Transport(n) == <<"ip4", n>>

P2p(peer) == <<"p2p", peer>>

Multiaddrs ==
    {<<Transport(n)>> : n \in 1..MaxTransports}
       \cup {<<Transport(n), P2p(q)>> : n \in 1..MaxTransports, q \in Peers}

NoAddr == <<>>
\* Option<Multiaddr>::None
EveryoneTopic == "everyone"
\* lib.rs EVERYONE_TOPIC
CapabilitiesTopic == "capabilities"
\* behaviour.rs CAPABILITIES_TOPIC
PeerIdTopic == "peer-id"
\* the topic named by the node's own peer id, peer_id.to_base58()
AdditionalTopics == {"alerts"}
\* topics a caller of network::new may pass
ExtraTopics == {"news", "jobs", "ops"}
\* more topic names a caller of AsnBehaviour::subscribe may pass
TopicNames == AdditionalTopics \cup ExtraTopics
Topics == {EveryoneTopic, CapabilitiesTopic, PeerIdTopic} \cup TopicNames
AppName == "weather"
\* the name the provide loop was started with (cli `provide --name`)
PROTOCOL_VERSION == "/agentic-network/1.0.0"
\* lib.rs PROTOCOL_VERSION, the one network::new reads
MaxPayloads == 2
\* distinct gossip payloads
MaxSeqno == 2
\* sequence numbers a publisher stamps on its messages
MaxGossip == 3
\* gossip messages the local gossipsub behaviour receives
Payloads == {[i \in 1..n |-> 104 + i] : n \in 1..MaxPayloads}
\* message.data: the bytes of "i", "ij", ...
Seqnos == 1..MaxSeqno
GossipTopics == {EveryoneTopic} \cup AdditionalTopics
\* gossipsub::Message as message_id_fn sees it; source NoPeer is this node
Messages ==
    [source : Peers \cup {NoPeer}, topic : GossipTopics,
     sequence_number : Seqnos, data : Payloads]

\* ---- state --------------------------------------------------------------
VARIABLES
    loopPc,                  \* position of EventLoop::run
    cancelled,               \* CancellationToken state
    handlesDropped,          \* every Client clone dropped: command channel closed
    cmdQueue,                \* messages parked in the command channel
    cmd,                     \* payload of each handle call
    replies,                 \* values sent on each call's one-shot sink
    sinkDropped,             \* one-shot senders dropped without a send
    abandoned,               \* calls whose one-shot receiver was dropped
    pending_dial,
    pending_start_providing,
    pending_get_providers,
    pending_request,
    nextQid,                 \* next kad::QueryId the library hands out
    nextRid,                 \* next OutboundRequestId the library hands out
    libQ,                    \* library's view of each kad query
    libR,                    \* library's view of each outbound request
    evSlot,                  \* message parked in the outbound event channel
    appPc,                   \* position of the application's provide loop
    appChan,                 \* response channel the application holds
    nextChan,                \* next inbound request
    evName,                  \* agent name carried by the parked event
    sentResp,                \* body handed to send_response per channel
    seen,                    \* channel of the last event the application took
    cookie,                  \* rendezvous cookie
    additional_topics,       \* the topics network::new was called with
    subscribed,              \* topics the gossipsub behaviour is subscribed to
    identify_protocol_version,   \* identify::Config protocol version
    request_response_protocol,   \* StreamProtocol of the request/response behaviour
    duplicate_cache,         \* message ids the gossipsub behaviour remembers
    gossipLog,               \* "Got message" lines the loop has printed
    gossipLive,              \* messages handed to the loop whose id is still cached
    gossipDropped,           \* messages gossipsub dropped as duplicates
    routing_table,           \* peers kademlia.add_address was called for
    rendezvous_register,     \* peer the latest handler called rendezvous.register
                             \* for and got Ok; NoPeer when it made no such call
    namespace,               \* EventLoop.namespace
    rendezvous_point,        \* EventLoop.rendezvous_point
    rendezvous_point_address, \* EventLoop.rendezvous_point_address
    external_address,        \* EventLoop.external_address
    rendezvous_calls,        \* what the latest step of run asked of the swarm at
                             \* startup, on a tick or on a discovery, in order
    explicit_peers,          \* gossipsub's explicit peers
    mdns_latest,             \* per peer, the kind of the latest mDNS event that
                             \* listed it
    kademlia_mode,           \* what kademlia.set_mode was last called with
    last_subscribe           \* topic and result of the latest gossipsub.subscribe
                             \* of a behaviour hook

vars == <<loopPc, cancelled, handlesDropped, cmdQueue, cmd, replies,
          sinkDropped, abandoned, pending_dial, pending_start_providing,
          pending_get_providers, pending_request, nextQid, nextRid, libQ, libR,
          evSlot, evName, appPc, appChan, nextChan, sentResp, seen, cookie,
          additional_topics, subscribed, identify_protocol_version,
          request_response_protocol, duplicate_cache, gossipLog, gossipLive,
          gossipDropped, routing_table, rendezvous_register, namespace,
          rendezvous_point, rendezvous_point_address, external_address,
          rendezvous_calls, explicit_peers, mdns_latest, kademlia_mode,
          last_subscribe>>

tables == <<pending_dial, pending_start_providing, pending_get_providers,
            pending_request>>

libVars == <<nextQid, nextRid, libQ, libR>>

appVars == <<evSlot, evName, appPc, appChan, nextChan, sentResp, seen>>

gossipVars == <<duplicate_cache, gossipLog, gossipLive, gossipDropped>>

\* the arguments of EventLoop::new, which no step assigns again
configVars == <<namespace, rendezvous_point, rendezvous_point_address,
                external_address>>

\* what network::new fixes and the gossipsub behaviour keeps: no command and
\* no request/response, kademlia or connection event touches it
mdnsVars == <<explicit_peers, mdns_latest>>

hookVars == <<kademlia_mode, last_subscribe>>

nodeVars == <<additional_topics, subscribed, identify_protocol_version,
              request_response_protocol, gossipVars, configVars, mdnsVars,
              hookVars>>

\* everything the gossipsub steps leave alone
coreVars == <<loopPc, cancelled, handlesDropped, cmdQueue, cmd, replies,
              sinkDropped, abandoned, tables, libVars, appVars, cookie,
              additional_topics, subscribed, identify_protocol_version,
              request_response_protocol, routing_table,
              rendezvous_register, configVars, rendezvous_calls, mdnsVars,
              hookVars>>


\* ---- helpers ------------------------------------------------------------
EmptyMap == [x \in {} |-> 0]

Remove(m, k) == [x \in DOMAIN m \ {k} |-> m[x]]

Insert(m, k, v) == [x \in DOMAIN m \cup {k} |-> IF x = k THEN v ELSE m[x]]

Range(m) == {m[x] : x \in DOMAIN m}

NoCmd == [kind |-> "none", handle |-> NoHandle, peer |-> NoPeer, name |-> NoName]

ReplyKinds == {"StartListening", "Dial", "Bootstrap", "StartProviding",
               "GetProviders", "RequestAgent"}

CallMsg(c) == [type |-> "call", id |-> c, body |-> NoBody]

RespondMsg(ch, b) == [type |-> "respond", id |-> ch, body |-> b]

QueuedCalls(q) == {q[i].id : i \in {j \in 1..Len(q) : q[j].type = "call"}}

\* a value sent on a one-shot sink: Ok(()) / Err(e) / () / a provider set /
\* Ok(bytes)
Reply(tag, body, provs) == [tag |-> tag, body |-> body, provs |-> provs]

ReplyOk == Reply("ok", NoBody, {})

ReplyErr(e) == Reply(e, NoBody, {})

ReplyUnit == Reply("unit", NoBody, {})

ReplyProviders(ps) == Reply("providers", NoBody, ps)

ReplyBytes(b) == Reply("ok", b, {})


PanicReceiverDropped == "panicked: Receiver not to be dropped"

\* the panics of the loop, by the message of the todo!, expect or unwrap
PanicTodoDial == "panicked: not yet implemented: Already dialing peer."

PanicStartProviding == "panicked: Completed query to be previously pending."

PanicQueryMut == "panicked: unwrap of kademlia.query_mut(&id)"

PanicRequest == "panicked: Request to still be pending."

PanicDiscoveredDial == "panicked: unwrap of swarm.dial(address_with_p2p)"

PanicRendezvousDial == "panicked: unwrap of swarm.dial(rendezvous_point_address)"

Panics == {PanicTodoDial, PanicStartProviding, PanicQueryMut, PanicRequest,
           PanicDiscoveredDial, PanicReceiverDropped, PanicRendezvousDial}

NoQuery == [st |-> "none", cmd |-> 0]

NoRequest == [st |-> "none", cmd |-> 0, body |-> NoBody]

TypeOK ==
    /\ loopPc \in {"start", "select", "sending", "returned"} \cup Panics
    /\ cancelled \in BOOLEAN
    /\ handlesDropped \in BOOLEAN
    /\ cmd \in [Cmds -> [kind : ReplyKinds \cup {"none"},
                         handle : Handles \cup {NoHandle},
                         peer : Peers \cup {NoPeer},
                         name : Names \cup {NoName}]]
    /\ \A c \in Cmds : Len(replies[c]) <= 2
    /\ sinkDropped \subseteq Cmds
    /\ abandoned \subseteq Cmds
    /\ DOMAIN pending_dial \subseteq Peers
    /\ DOMAIN pending_start_providing \subseteq Ids
    /\ DOMAIN pending_get_providers \subseteq Ids
    /\ DOMAIN pending_request \subseteq Ids
    /\ nextQid \in 1..(MaxCmds + 1)
    /\ nextRid \in 1..(MaxCmds + 1)
    /\ evSlot \in Chans \cup {NoChan}
    /\ appPc \in {"off", "recv", "llm", "panicked"}
    /\ appChan \in Chans \cup {NoChan}
    /\ nextChan \in 1..(MaxInbound + 1)
    /\ seen \in Chans \cup {NoChan}
    /\ cookie \in Cookies \cup {NoCookie}
    /\ additional_topics \subseteq TopicNames
    /\ kademlia_mode \in {"None", "Server"}
    /\ last_subscribe \in (Topics \cup {NoName}) \X {"none", "Ok(true)", "Ok(false)"}
    /\ subscribed \subseteq Topics
    /\ routing_table \subseteq Peers
    /\ rendezvous_register \in Peers \cup {NoPeer}
    /\ namespace \in Namespaces \cup {NoNamespace}
    /\ rendezvous_point \in Peers \cup {NoPeer}
    /\ rendezvous_point_address \in Multiaddrs \cup {NoAddr}
    /\ external_address \in Multiaddrs \cup {NoAddr}
    /\ Len(rendezvous_calls) <= 3
    /\ explicit_peers \subseteq Peers
    /\ mdns_latest \in [Peers -> {"none", "discovered", "expired"}]
    /\ duplicate_cache \subseteq STRING
    /\ Len(gossipLog) <= MaxGossip
    /\ \A i \in DOMAIN gossipLive : gossipLive[i] \in Messages
    /\ gossipDropped \subseteq Messages

\* ---- construction -------------------------------------------------------
\* EventLoop::new: empty tables, no cookie.  network::new: both channels
\* empty; gossipsub subscribed to the everyone topic, to the topic named by
\* the node's peer id and to each additional topic.  main: the provide loop runs (appPc = "recv") or the chosen mode
\* never polls the event stream (appPc = "off").
NoSubscribe == <<NoName, "none">>

EventLoopBuilt(topics, pc, ns, point, address, external) ==
    /\ loopPc = pc
    /\ cancelled = FALSE
    /\ handlesDropped = FALSE
    /\ cmdQueue = <<>>
    /\ cmd = [c \in Cmds |-> NoCmd]
    /\ replies = [c \in Cmds |-> <<>>]
    /\ sinkDropped = {}
    /\ abandoned = {}
    /\ pending_dial = EmptyMap
    /\ pending_start_providing = EmptyMap
    /\ pending_get_providers = EmptyMap
    /\ pending_request = EmptyMap
    /\ nextQid = 1
    /\ nextRid = 1
    /\ libQ = [q \in Ids |-> NoQuery]
    /\ libR = [r \in Ids |-> NoRequest]
    /\ evSlot = NoChan
    /\ appChan = NoChan
    /\ nextChan = 1
    /\ evName = NoName
    /\ sentResp = [ch \in Chans |-> NoBody]
    /\ seen = NoChan
    /\ cookie = NoCookie
    /\ additional_topics = topics
    /\ identify_protocol_version = PROTOCOL_VERSION
    /\ request_response_protocol = PROTOCOL_VERSION
    /\ routing_table = {}
    /\ rendezvous_register = NoPeer
    /\ duplicate_cache = {}
    /\ gossipLog = <<>>
    /\ gossipLive = <<>>
    /\ gossipDropped = {}
    /\ namespace = ns
    /\ rendezvous_point = point
    /\ rendezvous_point_address = address
    /\ external_address = external
    /\ rendezvous_calls = <<>>
    /\ explicit_peers = {}
    /\ mdns_latest = [p \in Peers |-> "none"]

\* network::new before EventLoop::new: kademlia.set_mode(Some(Server)), then
\* gossipsub.subscribe for the everyone topic, the peer-id topic and each
\* additional topic
SwarmBuilt ==
    /\ subscribed = {EveryoneTopic, PeerIdTopic} \cup additional_topics
    /\ kademlia_mode = "Server"
    /\ last_subscribe = NoSubscribe

\* AsnBehaviour::new: no subscription, kademlia in its default mode; the
\* type is in no swarm and no loop runs it
AsnBehaviourNew ==
    /\ EventLoopBuilt({}, "start", NoNamespace, NoPeer, NoAddr, NoAddr)
    /\ subscribed = {}
    /\ kademlia_mode = "None"
    /\ last_subscribe = NoSubscribe
    /\ appPc = "off"

\* network::new: EventLoop::new(swarm, command_receiver, event_sender, None,
\* None, None, None).  With nothing configured the three startup calls of
\* run do nothing, so the loop is taken at its select!.
NodeBuilt(topics) ==
    /\ EventLoopBuilt(topics, "select", NoNamespace, NoPeer, NoAddr, NoAddr)
    /\ SwarmBuilt
    /\ appPc \in {"recv", "off"}

\* main: network::new(cli.secret_key_seed, vec![])
Init == NodeBuilt({})

\* any caller of network::new
GossipInit == \E topics \in SUBSET AdditionalTopics : NodeBuilt(topics)

\* ---- the handle side ----------------------------------------------------
LoopAlive == loopPc \in {"start", "select", "sending"}

\* position of handle call c, read off the channel and its one-shot pair:
\* "sending" while the command is parked in the channel (Sink::send returns
\* only when the receiver has taken it), "waiting" on receiver.await,
\* "returned" with the value sent, "panicked" on the expect of a Canceled
\* receiver
CallerPc(c) ==
    IF cmd[c] = NoCmd THEN "idle"
    ELSE IF c \in abandoned THEN "abandoned"
    ELSE IF c \in QueuedCalls(cmdQueue) THEN "sending"
    ELSE IF replies[c] # <<>> THEN "returned"
    ELSE IF c \in sinkDropped THEN "panicked"
    ELSE "waiting"

\* a Client method borrows its Client (&mut self) until it returns, and a
\* method that panicked has unwound the task that owned the Client
HandleFree(h) ==
    \A d \in Cmds : cmd[d].handle = h => CallerPc(d) = "returned"

\* clones are numbered as they come into use
HandleInUse(h) == \E d \in Cmds : cmd[d].handle = h

\* a handle method whose command goes to the front of an unbounded buffer and
\* which does not wait for the command to be taken
CallerSend_PushFront(c, h, k, p, n) ==
    /\ LoopAlive
    /\ ~handlesDropped
    /\ cmd[c] = NoCmd
    /\ \A d \in 1..(c - 1) : cmd[d] # NoCmd
    /\ \A g \in 1..(h - 1) : HandleInUse(g)
    /\ cmd' = [cmd EXCEPT ![c] = [kind |-> k, handle |-> h, peer |-> p,
                                  name |-> n]]
    /\ cmdQueue' = <<CallMsg(c)>> \o cmdQueue
    /\ UNCHANGED <<loopPc, cancelled, handlesDropped, replies, sinkDropped,
                   tables, libVars, appVars, cookie,
                   nodeVars, abandoned, routing_table, rendezvous_register,
                   rendezvous_calls>>

\* Client::start_listening / dial / start_providing / get_providers /
\* request_agent on handle h: oneshot::channel(), then
\* sender.send(Command { .. }).  Calls are numbered in the order they are made.
CallerSend(c, h, k, p, n) ==
    /\ LoopAlive
    /\ ~handlesDropped
    /\ cmd[c] = NoCmd
    /\ \A d \in 1..(c - 1) : cmd[d] # NoCmd
    /\ \A g \in 1..(h - 1) : HandleInUse(g)
    /\ HandleFree(h)
    /\ cmd' = [cmd EXCEPT ![c] = [kind |-> k, handle |-> h, peer |-> p,
                                  name |-> n]]
    /\ cmdQueue' = Append(cmdQueue, CallMsg(c))
    /\ UNCHANGED <<loopPc, cancelled, handlesDropped, replies, sinkDropped,
                   tables, libVars, appVars, cookie,
                   nodeVars, abandoned, routing_table, rendezvous_register,
                   rendezvous_calls>>

\* the future of handle call c is dropped while it waits on receiver.await
\* or on the send before it (the losing futures of select_ok in main; the
\* handle is a public type, so any of its futures can be dropped): the
\* one-shot receiver goes with it, a command already parked in the channel
\* stays there
Abandon(c) ==
    /\ CallerPc(c) \in {"sending", "waiting"}
    /\ Cardinality(abandoned) < MaxAbandoned
    /\ abandoned' = abandoned \cup {c}
    /\ UNCHANGED <<loopPc, cancelled, handlesDropped, cmdQueue, cmd, replies,
                   sinkDropped, tables, libVars, appVars, cookie, nodeVars,
                   routing_table, rendezvous_register,
                   rendezvous_calls>>

\* the payloads each command kind carries
CmdArgs ==
    ({"StartListening", "Bootstrap", "StartProviding"} \X {NoPeer} \X {NoName})
    \cup ({"Dial"} \X Peers \X {NoName})
    \cup ({"RequestAgent"} \X {NoPeer} \X {NoName})
    \cup ({"GetProviders"} \X {NoPeer} \X Names)

\* ---- leaving run --------------------------------------------------------
SinksHeld(pd, psp, pgp, pr, q) ==
    Range(pd) \cup Range(psp) \cup Range(pgp) \cup Range(pr) \cup QueuedCalls(q)

\* run returns (break / return) or unwinds from a panic: the EventLoop value
\* is dropped, and with it the four tables, the command receiver (and the
\* commands still parked in the channel) and the event sender.  `held` are
\* the calls whose one-shot sender dies unused.
DropLoop(how, held) ==
    /\ loopPc' = how
    /\ sinkDropped' = sinkDropped \cup held
    /\ pending_dial' = EmptyMap
    /\ pending_start_providing' = EmptyMap
    /\ pending_get_providers' = EmptyMap
    /\ pending_request' = EmptyMap
    /\ cmdQueue' = <<>>

\* ---- EventLoop::handle_command -------------------------------------------
\* the command branch polled while a handler is still suspended (a handler
\* run beside the select! instead of inside it)
TakesCall_WhileSuspended(k) ==
    /\ LoopAlive
    /\ cmdQueue # <<>>
    /\ Head(cmdQueue).type = "call"
    /\ cmd[Head(cmdQueue).id].kind = k

TakesCall(k) ==
    /\ loopPc = "select"
    /\ cmdQueue # <<>>
    /\ Head(cmdQueue).type = "call"
    /\ cmd[Head(cmdQueue).id].kind = k

\* Command::StartListening with the bind error propagated by `?` instead of
\* sent: the handler unwinds and the loop ends with the sender unused
CmdStartListening_PropagateBindError(ok) ==
    /\ TakesCall("StartListening")
    /\ LET c == Head(cmdQueue).id IN
       IF ok
       THEN /\ replies' = [replies EXCEPT ![c] = Append(@, ReplyOk)]
            /\ cmdQueue' = Tail(cmdQueue)
            /\ UNCHANGED <<loopPc, sinkDropped, tables>>
       ELSE /\ DropLoop("panicked: bind",
                        SinksHeld(pending_dial, pending_start_providing,
                                  pending_get_providers, pending_request,
                                  cmdQueue))
            /\ UNCHANGED replies
    /\ UNCHANGED <<cancelled, handlesDropped, cmd, libVars, appVars, cookie,
                   nodeVars, abandoned, routing_table>>
    /\ rendezvous_register' = NoPeer
    /\ rendezvous_calls' = <<>>

\* Command::StartListening: swarm.listen_on, answer at once
CmdStartListening(ok) ==
    /\ TakesCall("StartListening")
    /\ LET c == Head(cmdQueue).id IN
       /\ replies' = [replies EXCEPT
                        ![c] = Append(@, IF ok THEN ReplyOk ELSE ReplyErr("bind"))]
    /\ cmdQueue' = Tail(cmdQueue)
    /\ UNCHANGED <<loopPc, cancelled, handlesDropped, cmd, sinkDropped, tables,
                   libVars, appVars, cookie,
                   nodeVars, abandoned, routing_table>>
    /\ rendezvous_register' = NoPeer
    /\ rendezvous_calls' = <<>>

\* Command::Dial with HashMap::insert in place of the entry test: the sender
\* of an earlier Dial to the same peer is replaced and dropped
CmdDial_Overwrite(dialOk) ==
    /\ TakesCall("Dial")
    /\ LET c == Head(cmdQueue).id
           p == cmd[c].peer
       IN
       /\ routing_table' = routing_table \cup {p}
       /\ IF dialOk
          THEN /\ pending_dial' = Insert(pending_dial, p, c)
               /\ sinkDropped' = IF p \in DOMAIN pending_dial
                                 THEN sinkDropped \cup {pending_dial[p]}
                                 ELSE sinkDropped
               /\ UNCHANGED replies
          ELSE /\ replies' = [replies EXCEPT ![c] = Append(@, ReplyErr("dial"))]
               /\ UNCHANGED <<pending_dial, sinkDropped>>
    /\ cmdQueue' = Tail(cmdQueue)
    /\ UNCHANGED <<loopPc, pending_start_providing, pending_get_providers,
                   pending_request, cancelled, handlesDropped, cmd, libVars,
                   appVars, cookie,
                   nodeVars, abandoned>>
    /\ rendezvous_register' = NoPeer
    /\ rendezvous_calls' = <<>>

\* Command::Dial that registers the sender whatever swarm.dial returned
CmdDial_IgnoreDialError(dialOk) ==
    /\ TakesCall("Dial")
    /\ LET c == Head(cmdQueue).id
           p == cmd[c].peer
       IN
       /\ IF p \notin DOMAIN pending_dial
          THEN /\ routing_table' = routing_table \cup {p}
               /\ pending_dial' = Insert(pending_dial, p, c)
               /\ cmdQueue' = Tail(cmdQueue)
               /\ UNCHANGED <<loopPc, sinkDropped, pending_start_providing,
                              pending_get_providers, pending_request>>
          ELSE /\ DropLoop(PanicTodoDial,
                           SinksHeld(pending_dial, pending_start_providing,
                                     pending_get_providers, pending_request,
                                     Tail(cmdQueue)) \cup {c})
               /\ UNCHANGED routing_table
    /\ UNCHANGED <<cancelled, handlesDropped, cmd, replies, libVars, appVars,
                   cookie, nodeVars, abandoned>>
    /\ rendezvous_register' = NoPeer
    /\ rendezvous_calls' = <<>>

\* Command::Dial: vacant entry -> add_address, swarm.dial, insert the sender
\* (or answer the dial error at once); occupied entry -> todo!()
CmdDial(dialOk) ==
    /\ TakesCall("Dial")
    /\ LET c == Head(cmdQueue).id
           p == cmd[c].peer
       IN
       /\ IF p \notin DOMAIN pending_dial
          THEN /\ routing_table' = routing_table \cup {p}
               /\ IF dialOk
                  THEN /\ pending_dial' = Insert(pending_dial, p, c)
                       /\ UNCHANGED replies
                  ELSE /\ replies' = [replies EXCEPT ![c] = Append(@, ReplyErr("dial"))]
                       /\ UNCHANGED pending_dial
               /\ cmdQueue' = Tail(cmdQueue)
               /\ UNCHANGED <<loopPc, sinkDropped, pending_start_providing,
                              pending_get_providers, pending_request>>
          ELSE /\ DropLoop(PanicTodoDial,
                           SinksHeld(pending_dial, pending_start_providing,
                                     pending_get_providers, pending_request,
                                     Tail(cmdQueue)) \cup {c})
               /\ UNCHANGED <<replies, routing_table>>
    /\ UNCHANGED <<cancelled, handlesDropped, cmd, libVars, appVars, cookie,
                   nodeVars, abandoned>>
    /\ rendezvous_register' = NoPeer
    /\ rendezvous_calls' = <<>>

\* Command::Bootstrap, which Client::bootstrap sends: types.rs declares no
\* such variant and handle_command has no arm for it, so nothing in the loop
\* calls a bootstrap hook or keeps the sender; the sender is dropped with the
\* command
CmdBootstrap ==
    /\ TakesCall("Bootstrap")
    /\ sinkDropped' = sinkDropped \cup {Head(cmdQueue).id}
    /\ cmdQueue' = Tail(cmdQueue)
    /\ UNCHANGED <<loopPc, cancelled, handlesDropped, cmd, replies, tables,
                   libVars, appVars, cookie, nodeVars, abandoned, routing_table>>
    /\ rendezvous_register' = NoPeer
    /\ rendezvous_calls' = <<>>

\* Command::StartProviding answering as soon as the query is started
CmdStartProviding_ReplyAtOnce(storeOk) ==
    /\ TakesCall("StartProviding")
    /\ LET c == Head(cmdQueue).id IN
       /\ IF storeOk
          THEN /\ replies' = [replies EXCEPT ![c] = Append(@, ReplyUnit)]
               /\ libQ' = [libQ EXCEPT ![nextQid] = [st |-> "providing", cmd |-> c]]
               /\ nextQid' = nextQid + 1
               /\ UNCHANGED sinkDropped
          ELSE /\ sinkDropped' = sinkDropped \cup {c}
               /\ UNCHANGED <<replies, libQ, nextQid>>
    /\ cmdQueue' = Tail(cmdQueue)
    /\ UNCHANGED <<loopPc, cancelled, handlesDropped, cmd, tables, nextRid,
                   libR, appVars, cookie, nodeVars, abandoned, routing_table>>
    /\ rendezvous_register' = NoPeer
    /\ rendezvous_calls' = <<>>

\* Command::StartProviding that takes the query id with
\* .expect("No store error."), as the copy of the loop under src/src/network
\* does
CmdStartProviding_ExpectNoStoreError(storeOk) ==
    /\ TakesCall("StartProviding")
    /\ LET c == Head(cmdQueue).id IN
       IF storeOk
       THEN /\ pending_start_providing' =
                   Insert(pending_start_providing, nextQid, c)
            /\ libQ' = [libQ EXCEPT ![nextQid] = [st |-> "providing", cmd |-> c]]
            /\ nextQid' = nextQid + 1
            /\ cmdQueue' = Tail(cmdQueue)
            /\ UNCHANGED <<loopPc, sinkDropped, pending_dial,
                           pending_get_providers, pending_request>>
       ELSE /\ DropLoop("panicked: No store error.",
                        SinksHeld(pending_dial, pending_start_providing,
                                  pending_get_providers, pending_request,
                                  Tail(cmdQueue)) \cup {c})
            /\ UNCHANGED <<libQ, nextQid>>
    /\ UNCHANGED <<cancelled, handlesDropped, cmd, replies, nextRid, libR,
                   appVars, cookie, nodeVars, abandoned, routing_table>>
    /\ rendezvous_register' = NoPeer
    /\ rendezvous_calls' = <<>>

\* Command::StartProviding: kademlia.start_providing; Ok(query_id) -> insert;
\* Err -> log, the sender is dropped at the end of the arm
CmdStartProviding(storeOk) ==
    /\ TakesCall("StartProviding")
    /\ LET c == Head(cmdQueue).id IN
       /\ IF storeOk
          THEN /\ pending_start_providing' =
                      Insert(pending_start_providing, nextQid, c)
               /\ libQ' = [libQ EXCEPT ![nextQid] = [st |-> "providing", cmd |-> c]]
               /\ nextQid' = nextQid + 1
               /\ UNCHANGED sinkDropped
          ELSE /\ sinkDropped' = sinkDropped \cup {c}
               /\ UNCHANGED <<pending_start_providing, libQ, nextQid>>
    /\ cmdQueue' = Tail(cmdQueue)
    /\ UNCHANGED <<loopPc, cancelled, handlesDropped, cmd, replies, pending_dial,
                   pending_get_providers, pending_request, nextRid, libR,
                   appVars, cookie,
                   nodeVars, abandoned, routing_table>>
    /\ rendezvous_register' = NoPeer
    /\ rendezvous_calls' = <<>>

\* Command::GetProviders: kademlia.get_providers, insert the sender
CmdGetProviders ==
    /\ TakesCall("GetProviders")
    /\ LET c == Head(cmdQueue).id IN
       /\ pending_get_providers' = Insert(pending_get_providers, nextQid, c)
       /\ libQ' = [libQ EXCEPT ![nextQid] = [st |-> "getting", cmd |-> c]]
       /\ nextQid' = nextQid + 1
    /\ cmdQueue' = Tail(cmdQueue)
    /\ UNCHANGED <<loopPc, cancelled, handlesDropped, cmd, replies, sinkDropped,
                   pending_dial, pending_start_providing, pending_request,
                   nextRid, libR, appVars, cookie,
                   nodeVars, abandoned, routing_table>>
    /\ rendezvous_register' = NoPeer
    /\ rendezvous_calls' = <<>>

\* Command::RequestAgent that sends the request and leaves the sender out of
\* pending_request (it is dropped at the end of the arm)
CmdRequestAgent_NoInsert ==
    /\ TakesCall("RequestAgent")
    /\ LET c == Head(cmdQueue).id IN
       /\ sinkDropped' = sinkDropped \cup {c}
       /\ libR' = [libR EXCEPT
                     ![nextRid] = [st |-> "inflight", cmd |-> c, body |-> NoBody]]
       /\ nextRid' = nextRid + 1
    /\ cmdQueue' = Tail(cmdQueue)
    /\ UNCHANGED <<loopPc, cancelled, handlesDropped, cmd, replies, tables,
                   nextQid, libQ, appVars, cookie, nodeVars, abandoned, routing_table>>
    /\ rendezvous_register' = NoPeer
    /\ rendezvous_calls' = <<>>

\* Command::RequestAgent: request_response.send_request, insert the sender
CmdRequestAgent ==
    /\ TakesCall("RequestAgent")
    /\ LET c == Head(cmdQueue).id IN
       /\ pending_request' = Insert(pending_request, nextRid, c)
       /\ libR' = [libR EXCEPT
                     ![nextRid] = [st |-> "inflight", cmd |-> c, body |-> NoBody]]
       /\ nextRid' = nextRid + 1
    /\ cmdQueue' = Tail(cmdQueue)
    /\ UNCHANGED <<loopPc, cancelled, handlesDropped, cmd, replies, sinkDropped,
                   pending_dial, pending_start_providing, pending_get_providers,
                   nextQid, libQ, appVars, cookie,
                   nodeVars, abandoned, routing_table>>
    /\ rendezvous_register' = NoPeer
    /\ rendezvous_calls' = <<>>

\* Command::RespondLLM as the RespondFile arm of src/src/network has it:
\* send_response(..).expect("Connection to peer to be still open.")
CmdRespondLLM_ExpectPeerOpen(sendOk) ==
    /\ loopPc = "select"
    /\ cmdQueue # <<>>
    /\ Head(cmdQueue).type = "respond"
    /\ LET ch == Head(cmdQueue).id
           b == Head(cmdQueue).body
       IN
       IF sendOk
       THEN /\ sentResp' = [sentResp EXCEPT ![ch] = b]
            /\ cmdQueue' = Tail(cmdQueue)
            /\ UNCHANGED <<loopPc, sinkDropped, tables>>
       ELSE /\ DropLoop("panicked: Connection to peer to be still open.",
                        SinksHeld(pending_dial, pending_start_providing,
                                  pending_get_providers, pending_request,
                                  cmdQueue))
            /\ UNCHANGED sentResp
    /\ UNCHANGED <<cancelled, handlesDropped, cmd, replies, libVars, appPc,
                   appChan, evSlot, evName, nextChan, seen, cookie,
                   nodeVars, abandoned, routing_table>>
    /\ rendezvous_register' = NoPeer
    /\ rendezvous_calls' = <<>>

\* Command::RespondLLM: request_response.send_response(channel, bytes); an
\* error (the peer is gone) is logged.  Taking the command out of the channel
\* lets Client::respond_llm return.
CmdRespondLLM(sendOk) ==
    /\ loopPc = "select"
    /\ cmdQueue # <<>>
    /\ Head(cmdQueue).type = "respond"
    /\ LET ch == Head(cmdQueue).id
           b == Head(cmdQueue).body
       IN
       /\ sentResp' = IF sendOk THEN [sentResp EXCEPT ![ch] = b] ELSE sentResp
    /\ cmdQueue' = Tail(cmdQueue)
    /\ UNCHANGED <<loopPc, cancelled, handlesDropped, cmd, replies, sinkDropped,
                   tables, libVars, appPc, appChan, evSlot, evName, nextChan,
                   seen, cookie,
                   nodeVars, abandoned, routing_table>>
    /\ rendezvous_register' = NoPeer
    /\ rendezvous_calls' = <<>>

\* ---- EventLoop::handle_event ---------------------------------------------
\* the library forgets a query / request once it has reported its end
QueryEnds(q, states) ==
    IF libQ[q].st \in states
    THEN [libQ EXCEPT ![q].st = "finished"]
    ELSE libQ

RequestEnds(r) ==
    IF libR[r].st \in {"inflight", "answered"}
    THEN [libR EXCEPT ![r].st = "done"]
    ELSE libR

\* kad QueryResult::StartProviding(_):
\* pending_start_providing.remove(&id).expect(..), then sender.send(())
EvStartProvidingFinished(q) ==
    /\ loopPc = "select"
    /\ libQ' = QueryEnds(q, {"providing"})
    /\ IF q \in DOMAIN pending_start_providing
       THEN /\ replies' = [replies EXCEPT
                             ![pending_start_providing[q]] = Append(@, ReplyUnit)]
            /\ pending_start_providing' = Remove(pending_start_providing, q)
            /\ UNCHANGED <<loopPc, sinkDropped, pending_dial,
                           pending_get_providers, pending_request, cmdQueue>>
       ELSE /\ DropLoop(PanicStartProviding,
                        SinksHeld(pending_dial, pending_start_providing,
                                  pending_get_providers, pending_request,
                                  cmdQueue))
            /\ UNCHANGED replies
    /\ UNCHANGED <<cancelled, handlesDropped, cmd, nextQid, nextRid, libR,
                   appVars, cookie,
                   nodeVars, abandoned, routing_table>>
    /\ rendezvous_register' = NoPeer
    /\ rendezvous_calls' = <<>>

\* the provider sets the library can report for query q: peers that provide
\* the queried name while it holds the query, anything for an id it does not
\* hold
ProviderSets(q) ==
    IF libQ[q].st \in {"getting", "finishing"}
    THEN SUBSET RemoteProviders(cmd[libQ[q].cmd].name)
    ELSE SUBSET Peers

\* kad GetProvidersOk::FoundProviders: if the id is pending, remove it, send
\* the providers with .expect("Receiver not to be dropped") (send returns
\* Err when the caller dropped its receiver), then
\* kademlia.query_mut(&id).unwrap().finish()
\* (query_mut is None for a query the library does not hold or has finished)
EvFoundProviders(q, provs) ==
    /\ loopPc = "select"
    /\ provs \in ProviderSets(q)
    /\ IF q \in DOMAIN pending_get_providers
       THEN /\ replies' = [replies EXCEPT
                             ![pending_get_providers[q]] =
                                 Append(@, ReplyProviders(provs))]
            /\ IF pending_get_providers[q] \in abandoned
               THEN /\ DropLoop(PanicReceiverDropped,
                                SinksHeld(pending_dial, pending_start_providing,
                                          Remove(pending_get_providers, q),
                                          pending_request, cmdQueue))
                    /\ UNCHANGED libQ
               ELSE IF libQ[q].st = "getting"
               THEN /\ pending_get_providers' = Remove(pending_get_providers, q)
                    /\ libQ' = [libQ EXCEPT ![q].st = "finishing"]
                    /\ UNCHANGED <<loopPc, sinkDropped, pending_dial,
                                   pending_start_providing, pending_request,
                                   cmdQueue>>
               ELSE /\ DropLoop(PanicQueryMut,
                                SinksHeld(pending_dial, pending_start_providing,
                                          Remove(pending_get_providers, q),
                                          pending_request, cmdQueue))
                    /\ UNCHANGED libQ
       ELSE UNCHANGED <<loopPc, replies, sinkDropped, tables, cmdQueue, libQ>>
    /\ UNCHANGED <<cancelled, handlesDropped, cmd, nextQid, nextRid, libR,
                   appVars, cookie,
                   nodeVars, abandoned, routing_table>>
    /\ rendezvous_register' = NoPeer
    /\ rendezvous_calls' = <<>>

\* kad GetProvidersOk::FinishedWithNoAdditionalRecord: log only
EvFinishedWithNoAdditionalRecord(q) ==
    /\ loopPc = "select"
    /\ libQ' = QueryEnds(q, {"getting", "finishing"})
    /\ UNCHANGED <<loopPc, cancelled, handlesDropped, cmdQueue, cmd, replies,
                   sinkDropped, tables, nextQid, nextRid, libR, appVars, cookie,
                   nodeVars, abandoned, routing_table>>
    /\ rendezvous_register' = NoPeer
    /\ rendezvous_calls' = <<>>

\* the remote provider answers request r with body b (its RespondLLM)
RemoteResponds(r, b) ==
    /\ LoopAlive
    /\ libR[r].st = "inflight"
    /\ libR' = [libR EXCEPT ![r].st = "answered", ![r].body = b]
    /\ UNCHANGED <<loopPc, cancelled, handlesDropped, cmdQueue, cmd, replies,
                   sinkDropped, tables, nextQid, nextRid, libQ, appVars, cookie,
                   nodeVars, abandoned, routing_table, rendezvous_register,
                   rendezvous_calls>>

\* the bodies the library can report for request r: the provider's answer
\* while it holds the request, anything for an id it does not hold
ResponseBodies(r) ==
    CASE libR[r].st = "answered" -> {libR[r].body}
      [] libR[r].st = "inflight" -> {}
      [] OTHER -> Bodies

\* Message::Response completing the oldest pending request instead of the
\* one registered under request_id
EvResponse_OldestSink(r, b) ==
    /\ loopPc = "select"
    /\ b \in ResponseBodies(r)
    /\ libR' = RequestEnds(r)
    /\ IF r \in DOMAIN pending_request
       THEN /\ LET o == CHOOSE x \in DOMAIN pending_request :
                           \A y \in DOMAIN pending_request : x <= y
               IN /\ replies' = [replies EXCEPT
                                   ![pending_request[o]] = Append(@, ReplyBytes(b))]
                  /\ pending_request' = Remove(pending_request, o)
            /\ UNCHANGED <<loopPc, sinkDropped, pending_dial,
                           pending_start_providing, pending_get_providers,
                           cmdQueue>>
       ELSE /\ DropLoop(PanicRequest,
                        SinksHeld(pending_dial, pending_start_providing,
                                  pending_get_providers, pending_request,
                                  cmdQueue))
            /\ UNCHANGED replies
    /\ UNCHANGED <<cancelled, handlesDropped, cmd, nextQid, nextRid, libQ,
                   appVars, cookie,
                   nodeVars, abandoned, routing_table>>
    /\ rendezvous_register' = NoPeer
    /\ rendezvous_calls' = <<>>

\* request_response Message::Response:
\* pending_request.remove(&request_id).expect(..).send(Ok(response.0))
EvResponse(r, b) ==
    /\ loopPc = "select"
    /\ b \in ResponseBodies(r)
    /\ libR' = RequestEnds(r)
    /\ IF r \in DOMAIN pending_request
       THEN /\ replies' = [replies EXCEPT
                             ![pending_request[r]] = Append(@, ReplyBytes(b))]
            /\ pending_request' = Remove(pending_request, r)
            /\ UNCHANGED <<loopPc, sinkDropped, pending_dial,
                           pending_start_providing, pending_get_providers,
                           cmdQueue>>
       ELSE /\ DropLoop(PanicRequest,
                        SinksHeld(pending_dial, pending_start_providing,
                                  pending_get_providers, pending_request,
                                  cmdQueue))
            /\ UNCHANGED replies
    /\ UNCHANGED <<cancelled, handlesDropped, cmd, nextQid, nextRid, libQ,
                   appVars, cookie,
                   nodeVars, abandoned, routing_table>>
    /\ rendezvous_register' = NoPeer
    /\ rendezvous_calls' = <<>>

\* request_response OutboundFailure handled by a log line only
EvOutboundFailure_LogOnly(r) ==
    /\ loopPc = "select"
    /\ libR' = RequestEnds(r)
    /\ UNCHANGED <<loopPc, cancelled, handlesDropped, cmdQueue, cmd, replies,
                   sinkDropped, tables, nextQid, nextRid, libQ, appVars, cookie,
                   nodeVars, abandoned, routing_table>>
    /\ rendezvous_register' = NoPeer
    /\ rendezvous_calls' = <<>>

\* request_response OutboundFailure:
\* pending_request.remove(&request_id).expect(..).send(Err(error))
EvOutboundFailure(r) ==
    /\ loopPc = "select"
    /\ libR' = RequestEnds(r)
    /\ IF r \in DOMAIN pending_request
       THEN /\ replies' = [replies EXCEPT
                             ![pending_request[r]] = Append(@, ReplyErr("outbound"))]
            /\ pending_request' = Remove(pending_request, r)
            /\ UNCHANGED <<loopPc, sinkDropped, pending_dial,
                           pending_start_providing, pending_get_providers,
                           cmdQueue>>
       ELSE /\ DropLoop(PanicRequest,
                        SinksHeld(pending_dial, pending_start_providing,
                                  pending_get_providers, pending_request,
                                  cmdQueue))
            /\ UNCHANGED replies
    /\ UNCHANGED <<cancelled, handlesDropped, cmd, nextQid, nextRid, libQ,
                   appVars, cookie,
                   nodeVars, abandoned, routing_table>>
    /\ rendezvous_register' = NoPeer
    /\ rendezvous_calls' = <<>>

\* Message::Request handled with a send that does not wait: the event
\* replaces whatever is parked in the channel and the loop goes on
EvInboundRequest_NoWait(n) ==
    /\ loopPc = "select"
    /\ nextChan <= MaxInbound
    /\ evName' = n
    /\ evSlot' = nextChan
    /\ nextChan' = nextChan + 1
    /\ UNCHANGED <<loopPc, cancelled, handlesDropped, cmdQueue, cmd, replies,
                   sinkDropped, tables, libVars, appPc, appChan, sentResp,
                   seen, cookie,
                   nodeVars, abandoned, routing_table>>
    /\ rendezvous_register' = NoPeer
    /\ rendezvous_calls' = <<>>

\* request_response Message::Request: event_sender.send(InboundRequest).await;
\* the message is parked in the event channel and the loop is suspended
\* until the application takes it
EvInboundRequest(n) ==
    /\ loopPc = "select"
    /\ nextChan <= MaxInbound
    /\ evName' = n
    /\ evSlot' = nextChan
    /\ nextChan' = nextChan + 1
    /\ loopPc' = "sending"
    /\ UNCHANGED <<cancelled, handlesDropped, cmdQueue, cmd, replies,
                   sinkDropped, tables, libVars, appPc, appChan, sentResp,
                   seen, cookie,
                   nodeVars, abandoned, routing_table>>
    /\ rendezvous_register' = NoPeer
    /\ rendezvous_calls' = <<>>

\* ConnectionEstablished that registers with the peer only when it completed
\* a pending dial
EvConnectionEstablished_RegisterWhenDialed(p, dialer, registerOk) ==
    /\ loopPc = "select"
    /\ IF dialer /\ p \in DOMAIN pending_dial
       THEN /\ replies' = [replies EXCEPT ![pending_dial[p]] = Append(@, ReplyOk)]
            /\ pending_dial' = Remove(pending_dial, p)
            /\ rendezvous_register' = IF registerOk THEN p ELSE NoPeer
            /\ rendezvous_calls' = <<>>
       ELSE /\ UNCHANGED <<replies, pending_dial>>
            /\ rendezvous_register' = NoPeer
            /\ rendezvous_calls' = <<>>
    /\ UNCHANGED <<loopPc, cancelled, handlesDropped, cmdQueue, cmd,
                   sinkDropped, pending_start_providing, pending_get_providers,
                   pending_request, libVars, appVars, cookie,
                   nodeVars, abandoned, routing_table>>

\* ConnectionEstablished that completes the pending dial whichever side
\* opened the connection
EvConnectionEstablished_AnyEndpoint(p, dialer, registerOk) ==
    /\ loopPc = "select"
    /\ IF p \in DOMAIN pending_dial
       THEN /\ replies' = [replies EXCEPT ![pending_dial[p]] = Append(@, ReplyOk)]
            /\ pending_dial' = Remove(pending_dial, p)
       ELSE UNCHANGED <<replies, pending_dial>>
    /\ UNCHANGED <<loopPc, cancelled, handlesDropped, cmdQueue, cmd,
                   sinkDropped, pending_start_providing, pending_get_providers,
                   pending_request, libVars, appVars, cookie,
                   nodeVars, abandoned, routing_table>>
    /\ rendezvous_register' = IF registerOk THEN p ELSE NoPeer
    /\ rendezvous_calls' = <<>>

\* SwarmEvent::ConnectionEstablished: as dialer, complete a pending dial;
\* then rendezvous.register against the peer (an error ends the arm)
EvConnectionEstablished(p, dialer, registerOk) ==
    /\ loopPc = "select"
    /\ IF dialer /\ p \in DOMAIN pending_dial
       THEN /\ replies' = [replies EXCEPT ![pending_dial[p]] = Append(@, ReplyOk)]
            /\ pending_dial' = Remove(pending_dial, p)
       ELSE UNCHANGED <<replies, pending_dial>>
    /\ UNCHANGED <<loopPc, cancelled, handlesDropped, cmdQueue, cmd,
                   sinkDropped, pending_start_providing, pending_get_providers,
                   pending_request, libVars, appVars, cookie,
                   nodeVars, abandoned, routing_table>>
    /\ rendezvous_register' = IF registerOk THEN p ELSE NoPeer
    /\ rendezvous_calls' = <<>>

\* SwarmEvent::OutgoingConnectionError that removes the pending dial and
\* lets the sender go without sending the error
EvOutgoingConnectionError_DropSender(p) ==
    /\ loopPc = "select"
    /\ IF p # NoPeer /\ p \in DOMAIN pending_dial
       THEN /\ sinkDropped' = sinkDropped \cup {pending_dial[p]}
            /\ pending_dial' = Remove(pending_dial, p)
       ELSE UNCHANGED <<sinkDropped, pending_dial>>
    /\ UNCHANGED <<loopPc, cancelled, handlesDropped, cmdQueue, cmd, replies,
                   pending_start_providing, pending_get_providers,
                   pending_request, libVars, appVars, cookie, nodeVars, abandoned, routing_table>>
    /\ rendezvous_register' = NoPeer
    /\ rendezvous_calls' = <<>>

\* OutgoingConnectionError that answers the pending dial and leaves its
\* entry in the table
EvOutgoingConnectionError_KeepEntry(p) ==
    /\ loopPc = "select"
    /\ IF p # NoPeer /\ p \in DOMAIN pending_dial
       THEN replies' = [replies EXCEPT
                          ![pending_dial[p]] = Append(@, ReplyErr("outgoing connection"))]
       ELSE UNCHANGED replies
    /\ UNCHANGED <<loopPc, cancelled, handlesDropped, cmdQueue, cmd,
                   sinkDropped, tables, libVars, appVars, cookie,
                   nodeVars, abandoned, routing_table>>
    /\ rendezvous_register' = NoPeer
    /\ rendezvous_calls' = <<>>

\* SwarmEvent::OutgoingConnectionError { peer_id: Option<PeerId>, .. }
EvOutgoingConnectionError(p) ==
    /\ loopPc = "select"
    /\ IF p # NoPeer /\ p \in DOMAIN pending_dial
       THEN /\ replies' = [replies EXCEPT
                             ![pending_dial[p]] = Append(@, ReplyErr("outgoing connection"))]
            /\ pending_dial' = Remove(pending_dial, p)
       ELSE UNCHANGED <<replies, pending_dial>>
    /\ UNCHANGED <<loopPc, cancelled, handlesDropped, cmdQueue, cmd,
                   sinkDropped, pending_start_providing, pending_get_providers,
                   pending_request, libVars, appVars, cookie,
                   nodeVars, abandoned, routing_table>>
    /\ rendezvous_register' = NoPeer
    /\ rendezvous_calls' = <<>>

\* ---- rendezvous ----------------------------------------------------------
\* the calls recorded in rendezvous_calls
DialCall(address) ==
    [op |-> "dial", address |-> address, namespace |-> NoNamespace,
     cookie |-> NoCookie, point |-> NoPeer]

AddExternalAddressCall(address) ==
    [op |-> "add_external_address", address |-> address,
     namespace |-> NoNamespace, cookie |-> NoCookie, point |-> NoPeer]

RegisterCall(ns, point) ==
    [op |-> "register", address |-> NoAddr, namespace |-> ns,
     cookie |-> NoCookie, point |-> point]

DiscoverCall(ns, ck, point) ==
    [op |-> "discover", address |-> NoAddr, namespace |-> ns, cookie |-> ck,
     point |-> point]

\* Multiaddr::ends_with
EndsWith(address, suffix) ==
    /\ Len(address) >= Len(suffix)
    /\ SubSeq(address, Len(address) - Len(suffix) + 1, Len(address)) = suffix

\* the address the Discovered arm dials for an address listed by a
\* registration of `peer`
address_with_p2p(address, peer) ==
    IF ~EndsWith(address, <<P2p(peer)>>)
    THEN Append(address, P2p(peer))
    ELSE address

\* a registration is the peer id and the addresses of its signed record.
\* The payloads tried: none; one registration of peer 1 with one address
\* (bare, ending with its own /p2p, ending with another peer's); peer 1 with
\* two addresses followed by peer 2 with one
RegistrationLists ==
    {<<>>}
       \cup {<<[peer |-> 1, addresses |-> <<a>>]>> : a \in Multiaddrs}
       \cup {<<[peer |-> 1,
               addresses |-> <<<<Transport(1)>>, <<Transport(1), P2p(1)>>>>],
              [peer |-> 2, addresses |-> <<<<Transport(1)>>>>]>>}

\* the dials of the two nested for loops, in order
RECURSIVE DiscoveredDials(_)
DiscoveredDials(registrations) ==
    IF registrations = <<>>
    THEN <<>>
    ELSE LET r == Head(registrations) IN
         [i \in 1..Len(r.addresses) |->
             DialCall(address_with_p2p(r.addresses[i], r.peer))]
            \o DiscoveredDials(Tail(registrations))

\* rendezvous Discovered: cookie.replace(new_cookie), then for each
\* registration and each of its addresses swarm.dial(address_with_p2p)
\* .unwrap().  failAt is the first dial the swarm refuses (0: none); the
\* unwrap panics there and the dials after it are never made.
EvDiscovered(ck, registrations, failAt) ==
    /\ loopPc = "select"
    /\ LET dials == DiscoveredDials(registrations) IN
       /\ failAt <= Len(dials)
       /\ cookie' = ck
       /\ IF failAt = 0
          THEN /\ rendezvous_calls' = dials
               /\ UNCHANGED <<loopPc, sinkDropped, tables, cmdQueue>>
          ELSE /\ rendezvous_calls' = SubSeq(dials, 1, failAt)
               /\ DropLoop(PanicDiscoveredDial,
                           SinksHeld(pending_dial, pending_start_providing,
                                     pending_get_providers, pending_request,
                                     cmdQueue))
    /\ UNCHANGED <<cancelled, handlesDropped, cmd, replies, libVars, appVars,
                   nodeVars, abandoned, routing_table>>
    /\ rendezvous_register' = NoPeer

\* the tick with cookie None in place of self.cookie.clone()
DiscoverTick_WithoutCookie ==
    /\ loopPc = "select"
    /\ rendezvous_point # NoPeer
    /\ rendezvous_calls' =
          <<DiscoverCall(namespace, NoCookie, rendezvous_point)>>
    /\ UNCHANGED <<loopPc, cancelled, handlesDropped, cmdQueue, cmd, replies,
                   sinkDropped, tables, libVars, appVars, cookie,
                   nodeVars, abandoned, routing_table>>
    /\ rendezvous_register' = NoPeer

\* run, select! branch `discover_tick.tick(), if
\* self.rendezvous_point.is_some()`: rendezvous.discover(namespace, cookie,
\* None, rendezvous_point)
DiscoverTick ==
    /\ loopPc = "select"
    /\ rendezvous_point # NoPeer
    /\ rendezvous_calls' =
          <<DiscoverCall(namespace, cookie, rendezvous_point)>>
    /\ UNCHANGED <<loopPc, cancelled, handlesDropped, cmdQueue, cmd, replies,
                   sinkDropped, tables, libVars, appVars, cookie,
                   nodeVars, abandoned, routing_table>>
    /\ rendezvous_register' = NoPeer

\* run before its loop: add_external_address, dial_rendezvous_point_address
\* (swarm.dial(..).unwrap()), register_rendezvous_point, each only for a
\* configured value.  register fails without an external address; its
\* outcome is logged.
RunStartup(dialOk, registerOk) ==
    /\ loopPc = "start"
    /\ dialOk \/ rendezvous_point_address # NoAddr
    /\ registerOk => rendezvous_point # NoPeer /\ external_address # NoAddr
    /\ LET external == IF external_address # NoAddr
                       THEN <<AddExternalAddressCall(external_address)>>
                       ELSE <<>>
           dial == IF rendezvous_point_address # NoAddr
                   THEN <<DialCall(rendezvous_point_address)>>
                   ELSE <<>>
           register == IF rendezvous_point # NoPeer
                       THEN <<RegisterCall(NAMESPACE, rendezvous_point)>>
                       ELSE <<>>
       IN
       IF dialOk
       THEN /\ rendezvous_calls' = external \o dial \o register
            /\ rendezvous_register' = IF registerOk THEN rendezvous_point
                                                    ELSE NoPeer
            /\ loopPc' = "select"
            /\ UNCHANGED <<sinkDropped, tables, cmdQueue>>
       ELSE /\ rendezvous_calls' = external \o dial
            /\ rendezvous_register' = NoPeer
            /\ DropLoop(PanicRendezvousDial,
                        SinksHeld(pending_dial, pending_start_providing,
                                  pending_get_providers, pending_request,
                                  cmdQueue))
    /\ UNCHANGED <<cancelled, handlesDropped, cmd, replies, libVars, appVars,
                   cookie, nodeVars, abandoned, routing_table>>

\* ---- the hooks of AsnBehaviour --------------------------------------------
\* gossipsub::Behaviour::subscribe: Ok(true) for a new subscription,
\* Ok(false) for a topic already subscribed (the default subscription filter
\* refuses none)
GossipsubSubscribe(topic) ==
    IF topic \in subscribed THEN "Ok(false)" ELSE "Ok(true)"

\* subscribe with a repeated subscription refused by the library, dropped by
\* the hook
AsnSubscribe_RepeatUnsubscribes(topic) ==
    /\ subscribed' = IF topic \in subscribed
                     THEN subscribed \ {topic}
                     ELSE subscribed \cup {topic}
    /\ additional_topics' = additional_topics \cup {topic}
    /\ last_subscribe' = <<topic, GossipsubSubscribe(topic)>>
    /\ UNCHANGED <<loopPc, cancelled, handlesDropped, cmdQueue, cmd, replies,
                   sinkDropped, abandoned, tables, libVars, appVars, cookie,
                   identify_protocol_version, request_response_protocol,
                   routing_table, rendezvous_register, configVars,
                   rendezvous_calls, mdnsVars, gossipVars, kademlia_mode>>

\* AsnBehaviour::subscribe: gossipsub.subscribe(&IdentTopic::new(topic))
\* .unwrap()
AsnSubscribe(topic) ==
    /\ subscribed' = subscribed \cup {topic}
    /\ additional_topics' = additional_topics \cup {topic}
    /\ last_subscribe' = <<topic, GossipsubSubscribe(topic)>>
    /\ UNCHANGED <<loopPc, cancelled, handlesDropped, cmdQueue, cmd, replies,
                   sinkDropped, abandoned, tables, libVars, appVars, cookie,
                   identify_protocol_version, request_response_protocol,
                   routing_table, rendezvous_register, configVars,
                   rendezvous_calls, mdnsVars, gossipVars, kademlia_mode>>

\* AsnBehaviour::bootstrap: set_mode(Some(Server)), an address for a random
\* peer, subscribe to everyone and to capabilities, kademlia.bootstrap() with
\* its outcome logged
AsnBootstrap ==
    /\ kademlia_mode' = "Server"
    /\ subscribed' = subscribed \cup {EveryoneTopic, CapabilitiesTopic}
    /\ last_subscribe' = <<CapabilitiesTopic, GossipsubSubscribe(CapabilitiesTopic)>>
    /\ UNCHANGED <<loopPc, cancelled, handlesDropped, cmdQueue, cmd, replies,
                   sinkDropped, abandoned, tables, libVars, appVars, cookie,
                   identify_protocol_version, request_response_protocol,
                   routing_table, rendezvous_register, configVars,
                   rendezvous_calls, mdnsVars, gossipVars, additional_topics>>

\* shutdown unsubscribing from every topic
AsnShutdown_UnsubscribeAll ==
    /\ kademlia_mode' = "None"
    /\ subscribed' = {}
    /\ UNCHANGED <<loopPc, cancelled, handlesDropped, cmdQueue, cmd, replies,
                   sinkDropped, abandoned, tables, libVars, appVars, cookie,
                   identify_protocol_version, request_response_protocol,
                   routing_table, rendezvous_register, configVars,
                   rendezvous_calls, mdnsVars, gossipVars, additional_topics,
                   last_subscribe>>

\* AsnBehaviour::shutdown: set_mode(None), unsubscribe from everyone and
\* from capabilities
AsnShutdown ==
    /\ kademlia_mode' = "None"
    /\ subscribed' = subscribed \ {EveryoneTopic, CapabilitiesTopic}
    /\ UNCHANGED <<loopPc, cancelled, handlesDropped, cmdQueue, cmd, replies,
                   sinkDropped, abandoned, tables, libVars, appVars, cookie,
                   identify_protocol_version, request_response_protocol,
                   routing_table, rendezvous_register, configVars,
                   rendezvous_calls, mdnsVars, gossipVars, additional_topics,
                   last_subscribe>>

\* ---- mDNS ---------------------------------------------------------------
\* an mDNS event lists (peer id, address) pairs; the arms use the peer ids
MdnsLists == {<<p>> : p \in Peers} \cup {<<p, q>> : p, q \in Peers}

ListedPeers(list) == {list[i] : i \in DOMAIN list}

\* mdns Discovered: gossipsub.add_explicit_peer for each listed peer
EvMdnsDiscovered(list) ==
    /\ loopPc = "select"
    /\ explicit_peers' = explicit_peers \cup ListedPeers(list)
    /\ mdns_latest' = [p \in Peers |-> IF p \in ListedPeers(list)
                                       THEN "discovered" ELSE mdns_latest[p]]
    /\ UNCHANGED <<loopPc, cancelled, handlesDropped, cmdQueue, cmd, replies,
                   sinkDropped, tables, libVars, appVars, cookie, abandoned,
                   routing_table, additional_topics, subscribed,
                   identify_protocol_version, request_response_protocol,
                   gossipVars, configVars, hookVars>>
    /\ rendezvous_register' = NoPeer
    /\ rendezvous_calls' = <<>>

\* the Expired arm only logging
EvMdnsExpired_LogOnly(list) ==
    /\ loopPc = "select"
    /\ mdns_latest' = [p \in Peers |-> IF p \in ListedPeers(list)
                                       THEN "expired" ELSE mdns_latest[p]]
    /\ UNCHANGED <<loopPc, cancelled, handlesDropped, cmdQueue, cmd, replies,
                   sinkDropped, tables, libVars, appVars, cookie, abandoned,
                   routing_table, additional_topics, subscribed,
                   identify_protocol_version, request_response_protocol,
                   gossipVars, configVars, hookVars, explicit_peers>>
    /\ rendezvous_register' = NoPeer
    /\ rendezvous_calls' = <<>>

\* mdns Expired: gossipsub.remove_explicit_peer for each listed peer
EvMdnsExpired(list) ==
    /\ loopPc = "select"
    /\ explicit_peers' = explicit_peers \ ListedPeers(list)
    /\ mdns_latest' = [p \in Peers |-> IF p \in ListedPeers(list)
                                       THEN "expired" ELSE mdns_latest[p]]
    /\ UNCHANGED <<loopPc, cancelled, handlesDropped, cmdQueue, cmd, replies,
                   sinkDropped, tables, libVars, appVars, cookie, abandoned,
                   routing_table, additional_topics, subscribed,
                   identify_protocol_version, request_response_protocol,
                   gossipVars, configVars, hookVars>>
    /\ rendezvous_register' = NoPeer
    /\ rendezvous_calls' = <<>>

\* the catch-all arm with its commented-out panic!("{e:?}") in force
EvObserved_PanicUnhandled ==
    /\ loopPc = "select"
    /\ DropLoop("panicked: unhandled event",
                SinksHeld(pending_dial, pending_start_providing,
                          pending_get_providers, pending_request, cmdQueue))
    /\ UNCHANGED <<cancelled, handlesDropped, cmd, replies, libVars, appVars,
                   cookie, nodeVars, abandoned, routing_table>>
    /\ rendezvous_register' = NoPeer
    /\ rendezvous_calls' = <<>>

\* every arm of handle_event that only logs
EvObserved ==
    /\ loopPc = "select"
    /\ UNCHANGED <<loopPc, cancelled, handlesDropped, cmdQueue, cmd, replies,
                   sinkDropped, tables, libVars, appVars, cookie,
                   nodeVars, abandoned, routing_table>>
    /\ rendezvous_register' = NoPeer
    /\ rendezvous_calls' = <<>>

\* ---- gossipsub -----------------------------------------------------------
\* a u64 is four 16-bit limbs, most significant first
\* u64::wrapping_add of a small number
WrappingAdd(v, n) ==
    LET s4 == v[4] + (n % 65536)
        s3 == v[3] + (n \div 65536) + (s4 \div 65536)
        s2 == v[2] + (s3 \div 65536)
        s1 == v[1] + (s2 \div 65536)
    IN  <<s1 % 65536, s2 % 65536, s3 % 65536, s4 % 65536>>

\* DefaultHasher::new(): SipHash-1-3 with both keys zero, so the state every
\* hasher starts from is the same constant ("somepseu", the first word)
DefaultHasherNew == <<29551, 28005, 28787, 25973>>

\* Hasher::write of one word: the state after it is a function of the state
\* before it and of the word written, of nothing else (a rotation and an
\* addition stand for the SipHash rounds)
HasherWrite(v, b) ==
    WrappingAdd(<<v[2], v[3], v[4], v[1]>>, b * 40503 + 1)

RECURSIVE HasherWriteAll(_, _)
HasherWriteAll(v, bytes) ==
    IF bytes = <<>> THEN v
    ELSE HasherWriteAll(HasherWrite(v, Head(bytes)), Tail(bytes))

\* message.data.hash(&mut s); s.finish(): Hash for Vec<u8> writes the length,
\* then the bytes
HashData(data) ==
    HasherWriteAll(HasherWrite(DefaultHasherNew, Len(data)), data)

DigitChars == <<"0", "1", "2", "3", "4", "5", "6", "7", "8", "9">>

\* a u64 divided by ten: quotient and remainder
DivTen(v) ==
    LET c1 == v[1]
        c2 == (c1 % 10) * 65536 + v[2]
        c3 == (c2 % 10) * 65536 + v[3]
        c4 == (c3 % 10) * 65536 + v[4]
    IN  [quot |-> <<c1 \div 10, c2 \div 10, c3 \div 10, c4 \div 10>>,
         rem |-> c4 % 10]

\* u64::to_string: the decimal digits, most significant first, no padding
RECURSIVE U64ToString(_)
U64ToString(v) ==
    LET d == DivTen(v) IN
    IF d.quot = <<0, 0, 0, 0>> THEN DigitChars[d.rem + 1]
    ELSE U64ToString(d.quot) \o DigitChars[d.rem + 1]

\* a message id that also hashes the sequence number
message_id_fn_WithSequenceNumber(message) ==
    U64ToString(HasherWrite(HashData(message.data), message.sequence_number))

\* the closure given to ConfigBuilder::message_id_fn
message_id_fn(message) ==
    U64ToString(HashData(message.data))

\* gossipsub receives message m from a peer.  A message whose id is in the
\* duplicate cache is dropped.  Otherwise the id is cached and, when the
\* node is subscribed to the topic, Event::Message reaches handle_event,
\* which logs and prints it.
GossipsubReceives(m) ==
    /\ LoopAlive
    /\ m.source # NoPeer
    /\ Len(gossipLog) + Cardinality(gossipDropped) < MaxGossip
    /\ LET id == message_id_fn(m) IN
       IF id \in duplicate_cache
       THEN /\ gossipDropped' = gossipDropped \cup {m}
            /\ UNCHANGED <<duplicate_cache, gossipLog, gossipLive>>
       ELSE /\ duplicate_cache' = duplicate_cache \cup {id}
            /\ IF m.topic \in subscribed
               THEN /\ gossipLog' = Append(gossipLog,
                          [data |-> m.data, id |-> id, peer |-> m.source])
                    /\ gossipLive' = Append(gossipLive, m)
               ELSE UNCHANGED <<gossipLog, gossipLive>>
            /\ UNCHANGED gossipDropped
    /\ UNCHANGED coreVars

\* the duplicate cache keeps an id for a bounded time (the configuration
\* sets heartbeat, history and size, not the cache time): the entry goes
DuplicateCacheExpires(id) ==
    /\ id \in duplicate_cache
    /\ duplicate_cache' = duplicate_cache \ {id}
    /\ gossipLive' = SelectSeq(gossipLive, LAMBDA m : message_id_fn(m) # id)
    /\ UNCHANGED <<gossipLog, gossipDropped>>
    /\ UNCHANGED coreVars

\* Command::GossipMessage: gossipsub.publish(topic, bytes); the outcome is
\* logged either way.  publish refuses a message whose id is cached
\* (Duplicate) or that has no peer to go to, else it caches the id and sends.
CmdGossipMessage(topic, data, seqno, hasPeers) ==
    /\ loopPc = "select"
    /\ LET m == [source |-> NoPeer, topic |-> topic,
                 sequence_number |-> seqno, data |-> data]
           id == message_id_fn(m) IN
       IF id \notin duplicate_cache /\ hasPeers
       THEN duplicate_cache' = duplicate_cache \cup {id}
       ELSE UNCHANGED duplicate_cache
    /\ UNCHANGED <<gossipLog, gossipLive, gossipDropped>>
    /\ UNCHANGED coreVars


\* ---- the application (main, Commands::Provide) ---------------------------
\* the provide loop is inside Client::respond_llm while its command is parked
\* in the command channel; appPc is where it stands once that send returns
AppSending == \E i \in 1..Len(cmdQueue) : cmdQueue[i].type = "respond"

\* network_events.next(): take the InboundRequest out of the event channel,
\* which lets the loop's send return; a request for another agent name is
\* logged and its channel dropped
AppReceive ==
    /\ appPc = "recv"
    /\ ~AppSending
    /\ evSlot # NoChan
    /\ evSlot' = NoChan
    /\ evName' = NoName
    /\ seen' = evSlot
    /\ loopPc' = "select"
    /\ IF evName = AppName
       THEN /\ appPc' = "llm"
            /\ appChan' = evSlot
       ELSE UNCHANGED <<appPc, appChan>>
    /\ UNCHANGED <<cancelled, handlesDropped, cmdQueue, cmd, replies,
                   sinkDropped, tables, libVars, nextChan, sentResp, cookie,
                   nodeVars, abandoned, routing_table, rendezvous_register,
                   rendezvous_calls>>

\* the bytes agent::respond_llm returns for the request that came with
\* channel ch (requests are told apart by their channel; so are the outputs,
\* up to MaxBodies)
LlmOutput(ch) == ((ch - 1) % MaxBodies) + 1

\* agent::respond_llm returned: Client::respond_llm parks
\* Command::RespondLLM in the command channel and waits for the loop to take
\* it (with the loop gone, send fails and the expect panics)
AppRespond ==
    /\ appPc = "llm"
    /\ appChan' = NoChan
    /\ IF LoopAlive
       THEN /\ cmdQueue' = Append(cmdQueue, RespondMsg(appChan, LlmOutput(appChan)))
            /\ appPc' = "recv"
       ELSE /\ appPc' = "panicked"
            /\ UNCHANGED cmdQueue
    /\ UNCHANGED <<loopPc, cancelled, handlesDropped, cmd, replies, sinkDropped,
                   tables, libVars, evSlot, evName, nextChan, sentResp, seen,
                   cookie,
                   nodeVars, abandoned, routing_table, rendezvous_register,
                   rendezvous_calls>>

\* ---- cancellation and channel closure ------------------------------------
\* CancellationToken::cancel, by whoever holds the token
Cancel ==
    /\ LoopAlive
    /\ ~cancelled
    /\ cancelled' = TRUE
    /\ UNCHANGED <<loopPc, handlesDropped, cmdQueue, cmd, replies, sinkDropped,
                   tables, libVars, appVars, cookie,
                   nodeVars, abandoned, routing_table, rendezvous_register,
                   rendezvous_calls>>

\* run, select! branch `cancellation_token.cancelled() => break`
LoopCancelled ==
    /\ loopPc = "select"
    /\ cancelled
    /\ DropLoop("returned",
                SinksHeld(pending_dial, pending_start_providing,
                          pending_get_providers, pending_request, cmdQueue))
    /\ UNCHANGED <<cancelled, handlesDropped, cmd, replies, libVars, appVars,
                   cookie,
                   nodeVars, abandoned, routing_table>>
    /\ rendezvous_register' = NoPeer
    /\ rendezvous_calls' = <<>>


\* every Client clone is dropped: possible only while no call is inside a
\* handle method (a call borrows its Client) and no provide loop holds one
DropHandles ==
    /\ ~handlesDropped
    /\ appPc = "off"
    /\ \A c \in Cmds : CallerPc(c) \notin {"sending", "waiting"}
    /\ handlesDropped' = TRUE
    /\ UNCHANGED <<loopPc, cancelled, cmdQueue, cmd, replies, sinkDropped,
                   tables, libVars, appVars, cookie,
                   nodeVars, abandoned, routing_table, rendezvous_register,
                   rendezvous_calls>>

\* the closure branch taken as soon as every sender is gone, whatever is
\* still in the channel
LoopClosed_BeforeDrained ==
    /\ loopPc = "select"
    /\ handlesDropped
    /\ DropLoop("returned",
                SinksHeld(pending_dial, pending_start_providing,
                          pending_get_providers, pending_request, cmdQueue))
    /\ UNCHANGED <<cancelled, handlesDropped, cmd, replies, libVars, appVars,
                   cookie,
                   nodeVars, abandoned, routing_table>>
    /\ rendezvous_register' = NoPeer
    /\ rendezvous_calls' = <<>>

\* run, select! branch `command_receiver.next()` yielding None => return
LoopClosed ==
    /\ loopPc = "select"
    /\ handlesDropped
    /\ cmdQueue = <<>>
    /\ DropLoop("returned",
                SinksHeld(pending_dial, pending_start_providing,
                          pending_get_providers, pending_request, cmdQueue))
    /\ UNCHANGED <<cancelled, handlesDropped, cmd, replies, libVars, appVars,
                   cookie,
                   nodeVars, abandoned, routing_table>>
    /\ rendezvous_register' = NoPeer
    /\ rendezvous_calls' = <<>>

\* ---- the specification ---------------------------------------------------
\* tokio::select! without `biased;` polls its branches starting at a random
\* one, so any ready branch may be the one taken
HandleCommand ==
    \/ \E ok \in BOOLEAN : CmdStartListening(ok)
    \/ \E ok \in BOOLEAN : CmdDial(ok)
    \/ CmdBootstrap
    \/ \E ok \in BOOLEAN : CmdStartProviding(ok)
    \/ CmdGetProviders
    \/ CmdRequestAgent
    \/ \E ok \in BOOLEAN : CmdRespondLLM(ok)

\* (no rendezvous Discovered: network::new configures no rendezvous point, so
\* this loop never asks for a discovery; RendezvousNext has it)
HandleEvent ==
    \/ \E q \in Ids : EvStartProvidingFinished(q)
    \/ \E q \in Ids, provs \in SUBSET Peers : EvFoundProviders(q, provs)
    \/ \E q \in Ids : EvFinishedWithNoAdditionalRecord(q)
    \/ \E r \in Ids, b \in Bodies : EvResponse(r, b)
    \/ \E r \in Ids : EvOutboundFailure(r)
    \/ \E n \in Names : EvInboundRequest(n)
    \/ \E p \in Peers, d \in BOOLEAN, ok \in BOOLEAN :
          EvConnectionEstablished(p, d, ok)
    \/ \E p \in Peers \cup {NoPeer} : EvOutgoingConnectionError(p)
    \/ EvObserved

LoopStep ==
    \/ LoopCancelled
    \/ HandleEvent
    \/ HandleCommand
    \/ LoopClosed

Environment ==
    \/ \E c \in Cmds, h \in Handles, a \in CmdArgs :
          CallerSend(c, h, a[1], a[2], a[3])
    \/ \E c \in Cmds : Abandon(c)
    \/ \E r \in Ids, b \in Bodies : RemoteResponds(r, b)
    \/ AppReceive
    \/ AppRespond
    \/ Cancel
    \/ DropHandles

Next == LoopStep \/ Environment

Spec == Init /\ [][Next]_vars

\* the gossipsub side of the node, which shares no state with the rest
GossipNext ==
    \/ \E m \in Messages : GossipsubReceives(m)
    \/ \E m \in Messages : DuplicateCacheExpires(message_id_fn(m))
    \/ \E t \in GossipTopics, d \in Payloads, n \in Seqnos, ok \in BOOLEAN :
          CmdGossipMessage(t, d, n, ok)

GossipSpec == GossipInit /\ [][GossipNext]_vars


\* any caller of EventLoop::new: a loop built with a rendezvous
\* configuration, before run's first step
RendezvousInit ==
    /\ \E ns \in Namespaces \cup {NoNamespace},
          point \in {NoPeer, 1},
          address \in {NoAddr, <<Transport(1)>>},
          external \in {NoAddr, <<Transport(1)>>} :
          /\ point = NoPeer => ns = NoNamespace
          /\ EventLoopBuilt({}, "start", ns, point, address, external)
    /\ SwarmBuilt
    /\ appPc = "off"

\* the rendezvous side of the loop together with the Dial command, the other
\* user of swarm.dial and of the connection events.  rendezvous::client
\* reports Discovered in answer to a discover, which only a loop with a
\* rendezvous point makes.
RendezvousNext ==
    \/ \E dialOk, registerOk \in BOOLEAN : RunStartup(dialOk, registerOk)
    \/ DiscoverTick
    \/ /\ rendezvous_point # NoPeer
       /\ \E ck \in Cookies, registrations \in RegistrationLists,
             failAt \in 0..MaxDials :
             EvDiscovered(ck, registrations, failAt)
    \/ \E c \in Cmds, h \in Handles, p \in Peers :
          CallerSend(c, h, "Dial", p, NoName)
    \/ \E ok \in BOOLEAN : CmdDial(ok)
    \/ \E p \in Peers, d \in BOOLEAN, ok \in BOOLEAN :
          EvConnectionEstablished(p, d, ok)
    \/ \E p \in Peers \cup {NoPeer} : EvOutgoingConnectionError(p)
    \/ EvObserved
    \/ Cancel
    \/ LoopCancelled

RendezvousSpec == RendezvousInit /\ [][RendezvousNext]_vars

\* the mDNS events beside the Dial command and the connection events, which
\* name the same peers
MdnsNext ==
    \/ \E list \in MdnsLists : EvMdnsDiscovered(list)
    \/ \E list \in MdnsLists : EvMdnsExpired(list)
    \/ \E c \in Cmds, h \in Handles, p \in Peers :
          CallerSend(c, h, "Dial", p, NoName)
    \/ \E ok \in BOOLEAN : CmdDial(ok)
    \/ \E p \in Peers, d \in BOOLEAN, ok \in BOOLEAN :
          EvConnectionEstablished(p, d, ok)
    \/ \E p \in Peers \cup {NoPeer} : EvOutgoingConnectionError(p)
    \/ Cancel
    \/ LoopCancelled

MdnsSpec == Init /\ [][MdnsNext]_vars

\* the hooks of an AsnBehaviour, called in any order by whoever owns it
AsnNext ==
    \/ \E topic \in TopicNames : AsnSubscribe(topic)
    \/ AsnBootstrap
    \/ AsnShutdown

AsnSpec == AsnBehaviourNew /\ [][AsnNext]_vars

\* the two commands that carry no reply sender: the provide loop answering
\* the requests that come in for its agent, and publishing
FireAndForgetNext ==
    \/ EvInboundRequest(AppName)
    \/ AppReceive
    \/ AppRespond
    \/ \E ok \in BOOLEAN : CmdRespondLLM(ok)
    \/ \E t \in GossipTopics, d \in Payloads, n \in Seqnos, ok \in BOOLEAN :
          CmdGossipMessage(t, d, n, ok)
    \/ \E m \in Messages : DuplicateCacheExpires(message_id_fn(m))
    \/ Cancel
    \/ LoopCancelled

FireAndForgetSpec == Init /\ [][FireAndForgetNext]_vars

\* ---- properties ----------------------------------------------------------
\* the loop has taken call c out of the command channel
Accepted(c) ==
    /\ cmd[c].kind \in ReplyKinds
    /\ c \notin QueuedCalls(cmdQueue)

\* call c sits in a pending table and the library has not yet reported the
\* end of the dial, query or request it stands for
InProgress(c) ==
    \/ c \in Range(pending_dial)
    \/ \E q \in DOMAIN pending_start_providing :
          pending_start_providing[q] = c /\ libQ[q].st = "providing"
    \/ \E q \in DOMAIN pending_get_providers :
          pending_get_providers[q] = c /\ libQ[q].st = "getting"
    \/ \E r \in DOMAIN pending_request :
          pending_request[r] = c /\ libR[r].st \in {"inflight", "answered"}

\* C1: every accepted reply-carrying command is answered exactly once, or the
\* loop has shut down and its sink is closed; while the loop runs, no
\* accepted command is left with a sink that will never be completed (its
\* sink is either already answered or still waits for an outcome the library
\* has yet to report).
C1_EveryAcceptedCommandAnswered ==
    \A c \in Cmds :
        Accepted(c) =>
            /\ Len(replies[c]) <= 1
            /\ \/ Len(replies[c]) = 1
               \/ ~LoopAlive /\ c \in sinkDropped
               \/ LoopAlive /\ c \notin sinkDropped /\ InProgress(c)

\* C2: an id registered in pending_start_providing, pending_get_providers or
\* pending_request leaves its table with the terminal event for that id:
\* while the loop runs, no table holds an id whose query or request the
\* library has already reported as ended (FinishedWithNoAdditionalRecord
\* included).
C2_TerminalEventRemovesEntry ==
    LoopAlive =>
        /\ \A q \in DOMAIN pending_start_providing : libQ[q].st # "finished"
        /\ \A q \in DOMAIN pending_get_providers : libQ[q].st # "finished"
        /\ \A r \in DOMAIN pending_request : libR[r].st # "done"

\* C3: a GetProviders call for a name nobody provides is answered with the
\* empty set: once the DHT has ended the query of such a call, the call's
\* sink holds exactly one reply, the empty provider set.
C3_NoProvidersReturnsEmptySet ==
    \A c \in Cmds, q \in Ids :
        (/\ cmd[c].kind = "GetProviders"
         /\ RemoteProviders(cmd[c].name) = {}
         /\ libQ[q] = [st |-> "finished", cmd |-> c]
         /\ LoopAlive)
        => replies[c] = <<ReplyProviders({})>>

\* C4: the loop never aborts: run is only ever left by the cancellation
\* branch or by the closed command channel, never by a panic.
C4_LoopNeverAborts == loopPc \notin Panics

\* the loop takes a Dial for a peer that already has a pending dial
TakesDuplicateDial ==
    /\ TakesCall("Dial")
    /\ cmd[Head(cmdQueue).id].peer \in DOMAIN pending_dial
    /\ \E ok \in BOOLEAN : CmdDial(ok)

\* C5: a Dial taken while a dial to the same peer is outstanding is rejected:
\* the second caller gets a failure reply, pending_dial is left as it was and
\* the loop keeps running.
C5_DuplicateDialRejected ==
    [][TakesDuplicateDial =>
          /\ loopPc' = "select"
          /\ pending_dial' = pending_dial
          /\ Len(replies'[Head(cmdQueue).id]) = 1
          /\ replies'[Head(cmdQueue).id][1].tag \notin {"ok", "unit", "providers"}]_vars

\* the loop handles a terminal event whose id is in no pending table
UnknownTerminalEvent ==
    \/ \E q \in Ids : q \notin DOMAIN pending_start_providing
                      /\ EvStartProvidingFinished(q)
    \/ \E q \in Ids, provs \in SUBSET Peers :
          q \notin DOMAIN pending_get_providers /\ EvFoundProviders(q, provs)
    \/ \E r \in Ids, b \in Bodies :
          r \notin DOMAIN pending_request /\ EvResponse(r, b)
    \/ \E r \in Ids : r \notin DOMAIN pending_request /\ EvOutboundFailure(r)

\* C6: a terminal event for an id that is not pending is tolerated: the loop
\* stays in its select and the four pending tables are unchanged.
C6_UnknownIdTolerated ==
    [][UnknownTerminalEvent => loopPc' = "select" /\ UNCHANGED tables]_vars


\* what receiver.await yields in the handle method of call c: the value
\* sent, or the Canceled error of a sender that was dropped unused
Observes(c) ==
    IF replies[c] # <<>> THEN replies[c][1]
    ELSE IF c \in sinkDropped THEN ReplyErr("Canceled")
    ELSE ReplyErr("nothing yet")

\* C7: when the token is cancelled while reply-carrying calls (a RequestAgent
\* among them) are outstanding and run has returned, every pending table is
\* gone with its reply sinks, every such call sees its channel closed, and
\* the call hands that closed-channel error to its caller as its result (the
\* handle method returns; it does not unwind the calling task).
C7_CancellationClosesPendingSinks ==
    (loopPc = "returned" /\ cancelled) =>
        /\ DOMAIN pending_dial = {}
        /\ DOMAIN pending_start_providing = {}
        /\ DOMAIN pending_get_providers = {}
        /\ DOMAIN pending_request = {}
        /\ cmdQueue = <<>>
        /\ \A c \in Cmds :
              (cmd[c].kind \in ReplyKinds /\ replies[c] = <<>>)
              => /\ Observes(c) = ReplyErr("Canceled")
                 /\ CallerPc(c) # "panicked"

\* C8: once the token is cancelled, the loop's next branch is the
\* cancellation branch: no swarm event and no command is handled after the
\* signal.
C8_CancellationTakenFirst ==
    [][cancelled => ~(HandleEvent \/ HandleCommand)]_vars

\* C9: a RequestAgent call is answered at most once, and an Ok answer
\* carries exactly the bytes the provider emitted for the request that call
\* created (so never the bytes of another call's request); on the providing
\* side, the bytes handed to send_response on a channel are the bytes the
\* application emitted for the InboundRequest that carried that channel.
C9_ResponseReachesItsRequester ==
    /\ \A c \in Cmds :
          cmd[c].kind = "RequestAgent" =>
             /\ Len(replies[c]) <= 1
             /\ \A i \in 1..Len(replies[c]) :
                   replies[c][i].tag = "ok" =>
                      \E r \in Ids : /\ libR[r].cmd = c
                                     /\ libR[r].st = "done"
                                     /\ libR[r].body = replies[c][i].body
    /\ \A ch \in Chans : sentResp[ch] \in {NoBody, LlmOutput(ch)}

\* two requests in flight at once: the later call is answered with its own
\* bytes while the earlier one, whose provider emitted other bytes, still
\* waits; and an inbound request has been answered through RespondLLM
C9_Witness ==
    /\ cmd[1].kind = "RequestAgent"
    /\ cmd[2].kind = "RequestAgent"
    /\ \E r1, r2 \in Ids :
          /\ libR[r1] = [st |-> "answered", cmd |-> 1, body |-> 1]
          /\ libR[r2] = [st |-> "done", cmd |-> 2, body |-> 2]
          /\ r1 \in DOMAIN pending_request
    /\ replies[2] = <<ReplyBytes(2)>>
    /\ replies[1] = <<>>
    /\ sentResp[1] = LlmOutput(1)

\* C10: the loop is never suspended in event_sender.send while the
\* application is suspended in Client::respond_llm's send on the command
\* channel.
C10_LoopAndApplicationNeverBlockEachOther ==
    ~(loopPc = "sending" /\ AppSending)

\* the loop takes the command at the head of the command channel
TakesHead == cmdQueue # <<>> /\ HandleCommand

\* C11: commands of one handle are handled in the order they were sent: when
\* the loop takes a command, every command the same handle sent earlier has
\* already been taken (and, handlers running to their end, handled); so it is
\* for the RespondLLM commands of the provide loop's handle.
C11_SingleHandleOrder ==
    [][TakesHead =>
          LET m == Head(cmdQueue) IN
          IF m.type = "call"
          THEN \A d \in 1..(m.id - 1) :
                  cmd[d].handle = cmd[m.id].handle
                  => d \notin QueuedCalls(cmdQueue)
          ELSE \A i \in 2..Len(cmdQueue) :
                  cmdQueue[i].type = "respond" => cmdQueue[i].id > m.id]_vars

\* one handle made two calls and the loop has handled both
C11_Witness ==
    /\ LoopAlive
    /\ cmd[1].handle = cmd[2].handle
    /\ cmd[2].kind \in ReplyKinds
    /\ QueuedCalls(cmdQueue) = {}
    /\ replies[1] # <<>>
    /\ replies[2] # <<>>

\* C12: every inbound request yields exactly one InboundRequest event, with
\* the request's agent name and response channel, and the application takes
\* the events in the order the loop handled the requests, none lost and none
\* twice: the requests handled so far are those the application has taken,
\* in order up to the last one taken, plus at most the one parked in the
\* channel, which is the next in order.
C12_InboundRequestsForwardedInOrder ==
    /\ [](/\ seen + (IF evSlot = NoChan THEN 0 ELSE 1) = nextChan - 1
          /\ evSlot # NoChan => evSlot = seen + 1 /\ evName \in Names)
    /\ [][\A n \in Names :
             EvInboundRequest(n) => /\ evSlot = NoChan
                                    /\ evSlot' = nextChan
                                    /\ evName' = n]_vars

\* the application has taken two events, the second after the first
C12_Witness ==
    /\ seen = 2
    /\ nextChan = 3
    /\ evSlot = NoChan
    /\ appChan = 2

\* the calls whose sender table t holds, counted with their keys
Holders(t, c) == {k \in DOMAIN t : t[k] = c}

\* the kind of command each table takes its senders from
EntriesWellFormed ==
    /\ \A c \in Range(pending_dial) : cmd[c].kind = "Dial"
    /\ \A c \in Range(pending_start_providing) : cmd[c].kind = "StartProviding"
    /\ \A c \in Range(pending_get_providers) : cmd[c].kind = "GetProviders"
    /\ \A c \in Range(pending_request) : cmd[c].kind = "RequestAgent"
    /\ \A c \in Cmds :
          Cardinality(Holders(pending_dial, c))
          + Cardinality(Holders(pending_start_providing, c))
          + Cardinality(Holders(pending_get_providers, c))
          + Cardinality(Holders(pending_request, c)) <= 1
    /\ \A c \in Range(pending_dial) \cup Range(pending_start_providing)
                \cup Range(pending_get_providers) \cup Range(pending_request) :
          /\ Accepted(c)
          /\ replies[c] = <<>>
          /\ c \notin sinkDropped

\* a step leaves the sender under every key that stays in table t
KeepsEntries(t, u) == \A k \in DOMAIN t \cap DOMAIN u : u[k] = t[k]

\* C13: in every reachable state each entry of a pending table belongs to
\* exactly one accepted command whose reply has not been delivered (one
\* entry per command, over all four tables), no sink is completed more than
\* once, and no step replaces the sender stored under a key: an insert never
\* overwrites an entry.
C13_PendingTablesWellFormed ==
    /\ [](EntriesWellFormed /\ \A c \in Cmds : Len(replies[c]) <= 1)
    /\ [][/\ KeepsEntries(pending_dial, pending_dial')
          /\ KeepsEntries(pending_start_providing, pending_start_providing')
          /\ KeepsEntries(pending_get_providers, pending_get_providers')
          /\ KeepsEntries(pending_request, pending_request')]_vars

\* two commands are pending at once under different keys of one table
C13_Witness ==
    /\ LoopAlive
    /\ \/ Cardinality(DOMAIN pending_dial) = 2
       \/ Cardinality(DOMAIN pending_request) = 2

\* C14: a Bootstrap command the loop has taken is answered: while the loop
\* runs, the sink of every accepted Bootstrap holds its single ok reply (the
\* handler replies before it ends), so Client::bootstrap returns.
C14_BootstrapAnswered ==
    \A c \in Cmds :
        (cmd[c].kind = "Bootstrap" /\ Accepted(c) /\ LoopAlive)
        => /\ replies[c] = <<ReplyOk>>
           /\ CallerPc(c) = "returned"

\* C15: once a node built with additional topics has been bootstrapped (its
\* Bootstrap command taken by the loop), it is subscribed to exactly
\* everyone, capabilities and the additional topics.
C15_BootstrappedSubscriptions ==
    (LoopAlive /\ \E c \in Cmds : cmd[c].kind = "Bootstrap" /\ Accepted(c))
    => subscribed = {EveryoneTopic, CapabilitiesTopic} \cup additional_topics

\* C16: an outgoing-connection error that names a peer with a pending dial
\* removes that entry and completes its sink with the error, which is what
\* the Dial call returns; one that names no peer, or a peer with no pending
\* dial, leaves pending_dial as it is.  No other entry and no other sink is
\* touched.
C16_DialFailureSurfaced ==
    [][\A p \in Peers \cup {NoPeer} :
          (loopPc = "select" /\ EvOutgoingConnectionError(p)) =>
             IF p # NoPeer /\ p \in DOMAIN pending_dial
             THEN /\ pending_dial' = Remove(pending_dial, p)
                  /\ replies' = [replies EXCEPT ![pending_dial[p]] =
                                    <<ReplyErr("outgoing connection")>>]
                  /\ loopPc' = "select"
             ELSE /\ pending_dial' = pending_dial
                  /\ replies' = replies]_vars

\* a Dial was pending, its connection attempt failed, and the call has
\* returned that error while the loop runs on
C16_Witness ==
    /\ LoopAlive
    /\ \E c \in Cmds :
          /\ cmd[c].kind = "Dial"
          /\ replies[c] = <<ReplyErr("outgoing connection")>>
          /\ CallerPc(c) = "returned"
          /\ cmd[c].peer \notin DOMAIN pending_dial

\* C17: a request the provider never answers stays unresolved until its
\* outbound failure: while the loop runs, the entry of an unanswered request
\* stays in pending_request with its sink untouched through every step but
\* the handling of the OutboundFailure event for its id, which removes the
\* entry and completes the sink with the transport error; and no entry
\* outlives that event.
C17_UnansweredRequestFailsOnOutboundFailure ==
    /\ [](LoopAlive => \A r \in DOMAIN pending_request :
                          libR[r].st \in {"inflight", "answered"})
    /\ [][\A r \in DOMAIN pending_request :
             (libR[r].st = "inflight" /\ LoopAlive') =>
                LET c == pending_request[r] IN
                \/ /\ r \in DOMAIN pending_request'
                   /\ pending_request'[r] = c
                   /\ replies'[c] = <<>>
                   /\ c \notin sinkDropped'
                   /\ libR'[r].st \in {"inflight", "answered"}
                \/ /\ r \notin DOMAIN pending_request'
                   /\ libR'[r].st = "done"
                   /\ replies'[c] = <<ReplyErr("outbound")>>]_vars

\* a request was never answered, its outbound failure arrived, and the call
\* has returned the error while the loop runs on
C17_Witness ==
    /\ LoopAlive
    /\ \E c \in Cmds, r \in Ids :
          /\ cmd[c].kind = "RequestAgent"
          /\ libR[r] = [st |-> "done", cmd |-> c, body |-> NoBody]
          /\ replies[c] = <<ReplyErr("outbound")>>
          /\ r \notin DOMAIN pending_request

\* where the provide loop stands: inside Client::respond_llm until the send
\* on the command channel returns, else at appPc
AppPosition == IF AppSending THEN "respond_llm" ELSE appPc

\* C18: respond_llm returns as soon as its command is enqueued, without
\* waiting for the loop to take it: whenever a RespondLLM command is parked
\* in the command channel, the provide loop has left Client::respond_llm and
\* is back at network_events.next().
C18_FireAndForgetReturnsOnEnqueue ==
    \A i \in 1..Len(cmdQueue) :
        cmdQueue[i].type = "respond" => AppPosition = "recv"

\* how often call c is parked in the command channel
TimesQueued(c) ==
    Cardinality({i \in 1..Len(cmdQueue) : cmdQueue[i] = CallMsg(c)})

\* the loop has handled call c: it answered it, keeps its sender in a
\* table, or let the sender go
Handled(c) ==
    \/ replies[c] # <<>>
    \/ c \in sinkDropped
    \/ \E k \in DOMAIN pending_dial : pending_dial[k] = c
    \/ \E k \in DOMAIN pending_start_providing : pending_start_providing[k] = c
    \/ \E k \in DOMAIN pending_get_providers : pending_get_providers[k] = c
    \/ \E k \in DOMAIN pending_request : pending_request[k] = c

\* C19: with clones of the handle sending concurrently, no command is lost
\* or handled twice and handlers do not interleave: while the loop runs,
\* every command sent is either parked once in the channel and not yet
\* handled, or out of the channel and handled; a step takes at most the
\* command at the head of the channel, and never a command together with an
\* inbound request; and while a handler is suspended (forwarding an
\* InboundRequest) the loop takes no command and no event, and the tables
\* and sinks stay as they are.
C19_OneHandlerAtATime ==
    /\ [](LoopAlive =>
            \A c \in Cmds :
               cmd[c] # NoCmd =>
                  \/ TimesQueued(c) = 1 /\ ~Handled(c)
                  \/ TimesQueued(c) = 0 /\ Handled(c))
    /\ [][/\ LoopAlive' =>
                \/ cmdQueue' = cmdQueue
                \/ cmdQueue # <<>> /\ cmdQueue' = Tail(cmdQueue)
                   /\ nextChan' = nextChan
                \/ Len(cmdQueue') = Len(cmdQueue) + 1
                   /\ SubSeq(cmdQueue', 1, Len(cmdQueue)) = cmdQueue
          /\ loopPc = "sending" =>
                /\ tables' = tables
                /\ replies' = replies
                /\ sinkDropped' = sinkDropped
                /\ cookie' = cookie
                /\ nextChan' = nextChan
                /\ Len(cmdQueue') >= Len(cmdQueue)]_vars

\* two clones have each a command parked in the channel while the loop is
\* suspended inside a handler
C19_Witness ==
    /\ loopPc = "sending"
    /\ QueuedCalls(cmdQueue) = {1, 2}
    /\ cmd[1].handle # cmd[2].handle

\* C20: a StartProviding call is answered with () exactly when the
\* StartProviding-finished event for the query id registered by that call is
\* handled, and not before: an answered call has its query reported
\* finished, and the step that handles the report for a query the library
\* runs answers the call registered under its id and removes the entry.
C20_StartProvidingAnsweredOnFinish ==
    /\ [](\A c \in Cmds :
            (cmd[c].kind = "StartProviding" /\ replies[c] # <<>>) =>
               /\ replies[c] = <<ReplyUnit>>
               /\ \E q \in Ids : libQ[q] = [st |-> "finished", cmd |-> c])
    /\ [][\A q \in Ids :
             (libQ[q].st = "providing" /\ libQ'[q].st = "finished") =>
                /\ replies[libQ[q].cmd] = <<>>
                /\ replies'[libQ[q].cmd] = <<ReplyUnit>>
                /\ q \in DOMAIN pending_start_providing
                /\ q \notin DOMAIN pending_start_providing']_vars

\* a StartProviding call has returned after the DHT reported its query
\* finished, and the loop runs on
C20_Witness ==
    /\ LoopAlive
    /\ \E c \in Cmds, q \in Ids :
          /\ cmd[c].kind = "StartProviding"
          /\ libQ[q] = [st |-> "finished", cmd |-> c]
          /\ replies[c] = <<ReplyUnit>>
          /\ CallerPc(c) = "returned"

\* C21: the entry of a query or request is in its table from the loop step
\* that issues it until its terminal event is handled, so no terminal event
\* for an id the library runs finds the table without that id: while the
\* loop runs, every StartProviding or GetProviders query and every request
\* the library has been given and has not yet reported on has its entry,
\* holding the sender of the command that produced it.
C21_EntryInsertedWithTheQuery ==
    LoopAlive =>
        /\ \A q \in Ids :
              /\ libQ[q].st = "providing" =>
                    /\ q \in DOMAIN pending_start_providing
                    /\ pending_start_providing[q] = libQ[q].cmd
              /\ libQ[q].st = "getting" =>
                    /\ q \in DOMAIN pending_get_providers
                    /\ pending_get_providers[q] = libQ[q].cmd
        /\ \A r \in Ids :
              libR[r].st \in {"inflight", "answered"} =>
                 /\ r \in DOMAIN pending_request
                 /\ pending_request[r] = libR[r].cmd

\* a request and a query were issued, the terminal event of the request has
\* been handled and the query still runs with its entry
C21_Witness ==
    /\ LoopAlive
    /\ \E r \in Ids, q \in Ids :
          /\ libR[r].st = "done"
          /\ replies[libR[r].cmd] # <<>>
          /\ libQ[q].st \in {"providing", "getting"}
          /\ q \in DOMAIN pending_start_providing \cup DOMAIN pending_get_providers

\* C22 (as stated): gossip reaches the loop at most once per distinct
\* message id, and the id is the decimal text of the hash of the payload
\* alone, so messages with equal payloads have equal ids whatever their
\* source, topic or sequence number.
C22_GossipAtMostOncePerId ==
    /\ \A i, j \in DOMAIN gossipLog :
          gossipLog[i].id = gossipLog[j].id => i = j
    /\ \A m1, m2 \in Messages :
          m1.data = m2.data => message_id_fn(m1) = message_id_fn(m2)

\* C22 (amended): while the id of a delivered message is in the duplicate
\* cache, no other message with the same payload is delivered, whatever its
\* source, topic or sequence number; every line printed carries the decimal
\* text of the payload's hash as id, and that text is the same for equal
\* payloads.
C22_AtMostOnceWhileCached ==
    /\ \A i, j \in DOMAIN gossipLive :
          gossipLive[i].data = gossipLive[j].data => i = j
    /\ \A i \in DOMAIN gossipLive :
          message_id_fn(gossipLive[i]) \in duplicate_cache
    /\ \A i, j \in DOMAIN gossipLog :
          gossipLog[i].data = gossipLog[j].data
             => gossipLog[i].id = gossipLog[j].id
    /\ \A i \in DOMAIN gossipLog :
          \A k \in 1..Len(gossipLog[i].id) :
             \E d \in DOMAIN DigitChars :
                SubSeq(gossipLog[i].id, k, k) = DigitChars[d]

\* a message was printed, and a message with the same payload from another
\* source with another sequence number was dropped while the id was cached
C22_Witness ==
    \E i \in DOMAIN gossipLive, m \in gossipDropped :
        /\ gossipLive[i].data = m.data
        /\ gossipLive[i].source # m.source
        /\ gossipLive[i].sequence_number # m.sequence_number
        /\ \E k \in DOMAIN gossipLog : gossipLog[k].data = m.data

\* C23: the node network::new builds advertises /asn/1.0.0 as identify
\* protocol version and uses the same string as request/response stream
\* protocol.
C23_ProtocolVersionIsAsn ==
    /\ identify_protocol_version = "/asn/1.0.0"
    /\ request_response_protocol = identify_protocol_version

\* C24: a connection-established event in which the local node is the dialer
\* removes the pending dial of that peer, when there is one, and completes
\* it with Ok; with or without a pending dial it asks rendezvous to register
\* with that peer; a failed registration ends the handling and changes no
\* pending table.
C24_DialerConnectionCompletesDialAndRegisters ==
    [][\A p \in Peers, ok \in BOOLEAN :
          EvConnectionEstablished(p, TRUE, ok) =>
             /\ p \in DOMAIN pending_dial =>
                   /\ p \notin DOMAIN pending_dial'
                   /\ replies'[pending_dial[p]]
                         = Append(replies[pending_dial[p]], ReplyOk)
             /\ \A o \in DOMAIN pending_dial \ {p} :
                   /\ o \in DOMAIN pending_dial'
                   /\ pending_dial'[o] = pending_dial[o]
             /\ DOMAIN pending_dial' \subseteq DOMAIN pending_dial
             /\ rendezvous_register' = IF ok THEN p ELSE NoPeer
             /\ UNCHANGED <<pending_start_providing, pending_get_providers,
                            pending_request, loopPc>>]_vars

\* a Dial was completed with Ok by the event that registered with its peer
C24_Witness ==
    /\ loopPc = "select"
    /\ \E c \in Cmds :
          /\ cmd[c].kind = "Dial"
          /\ replies[c] = <<ReplyOk>>
          /\ rendezvous_register = cmd[c].peer
          /\ cmd[c].peer \notin DOMAIN pending_dial

\* C25: a connection-established event in which the local node is the
\* listener removes no pending_dial entry and completes none; an entry
\* leaves pending_dial only when a dialer-side connection-established or an
\* outgoing-connection-error for its peer is handled (or the loop ends).
C25_ListenerConnectionLeavesDialPending ==
    /\ [][\A p \in Peers, ok \in BOOLEAN :
             EvConnectionEstablished(p, FALSE, ok) =>
                UNCHANGED <<pending_dial, replies, sinkDropped>>]_vars
    /\ [][\A p \in DOMAIN pending_dial :
             p \notin DOMAIN pending_dial' =>
                \/ \E ok \in BOOLEAN : EvConnectionEstablished(p, TRUE, ok)
                \/ EvOutgoingConnectionError(p)
                \/ ~LoopAlive']_vars

\* the latest event handled registered with a peer, and the Dial to that
\* peer is still pending: the peer connected inbound
C25_Witness ==
    /\ loopPc = "select"
    /\ rendezvous_register \in DOMAIN pending_dial
    /\ replies[pending_dial[rendezvous_register]] = <<>>

\* C26: every pending_dial entry was put there by a Dial command for its
\* peer; the first dialer-side connection-established or
\* outgoing-connection-error naming the peer that is handled while the
\* entry is there removes it and answers its caller, whichever dial attempt
\* the event belongs to; a rendezvous discovery, which dials the addresses
\* it lists, inserts no entry and answers nobody.
C26_DialCompletedByFirstEventForPeer ==
    /\ [](\A p \in DOMAIN pending_dial :
             /\ cmd[pending_dial[p]].kind = "Dial"
             /\ cmd[pending_dial[p]].peer = p
             /\ replies[pending_dial[p]] = <<>>)
    /\ [][\A p \in DOMAIN pending_dial :
             LET c == pending_dial[p] IN
             /\ (\E ok \in BOOLEAN : EvConnectionEstablished(p, TRUE, ok)) =>
                   /\ p \notin DOMAIN pending_dial'
                   /\ replies'[c] = <<ReplyOk>>
             /\ EvOutgoingConnectionError(p) =>
                   /\ p \notin DOMAIN pending_dial'
                   /\ replies'[c] = <<ReplyErr("outgoing connection")>>]_vars
    /\ [][(\E ck \in Cookies, registrations \in RegistrationLists,
              failAt \in 0..MaxDials :
              EvDiscovered(ck, registrations, failAt)) =>
             /\ DOMAIN pending_dial' \subseteq DOMAIN pending_dial
             /\ replies' = replies]_vars

\* after a discovery was handled, two Dials had been answered by events: one
\* by a connection, one by an outgoing-connection error
C26_Witness ==
    /\ LoopAlive
    /\ cookie # NoCookie
    /\ \E c, d \in Cmds :
          /\ cmd[c].kind = "Dial" /\ replies[c] = <<ReplyOk>>
          /\ cmd[d].kind = "Dial"
          /\ replies[d] = <<ReplyErr("outgoing connection")>>

\* C27: a Dial taken while no dial to its peer is outstanding adds the peer
\* to the routing table and dials; when the dial starts, the sender is
\* registered under the peer and nothing is answered yet; when swarm.dial
\* fails, the caller is answered with that error in the same step and no
\* entry is left, so the next Dial to that peer is taken the same way.
C27_AcceptedDialRegistersOrAnswersAtOnce ==
    /\ [][\A ok \in BOOLEAN :
             (CmdDial(ok) /\ cmd[Head(cmdQueue).id].peer \notin DOMAIN pending_dial) =>
                LET c == Head(cmdQueue).id
                    p == cmd[c].peer
                IN  /\ p \in routing_table'
                    /\ LoopAlive'
                    /\ IF ok
                       THEN /\ pending_dial' = Insert(pending_dial, p, c)
                            /\ replies' = replies
                       ELSE /\ pending_dial' = pending_dial
                            /\ replies' = [replies EXCEPT
                                             ![c] = <<ReplyErr("dial")>>]]_vars
    /\ [](\A c \in Cmds :
             (replies[c] = <<ReplyErr("dial")>>) =>
                \A p \in DOMAIN pending_dial : pending_dial[p] # c)

\* a Dial failed at once, and a later Dial to the same peer is pending
C27_Witness ==
    /\ LoopAlive
    /\ \E c, d \in Cmds :
          /\ cmd[c].kind = "Dial" /\ cmd[d].kind = "Dial"
          /\ cmd[c].peer = cmd[d].peer
          /\ replies[c] = <<ReplyErr("dial")>>
          /\ cmd[d].peer \in DOMAIN pending_dial
          /\ pending_dial[cmd[d].peer] = d
          /\ cmd[d].peer \in routing_table

C29_FirstFoundProvidersAnswers ==
    /\ [][\A q \in Ids, provs \in SUBSET Peers :
             (EvFoundProviders(q, provs) /\ libQ[q].st = "getting") =>
                /\ replies'[libQ[q].cmd] = <<ReplyProviders(provs)>>
                /\ q \notin DOMAIN pending_get_providers'
                /\ libQ'[q].st = "finishing"]_vars
    /\ [][\A q \in Ids :
             (/\ libQ[q].cmd \in Cmds
              /\ cmd[libQ[q].cmd].kind = "GetProviders"
              /\ replies[libQ[q].cmd] # <<>>
              /\ \/ \E provs \in SUBSET Peers : EvFoundProviders(q, provs)
                 \/ EvFinishedWithNoAdditionalRecord(q)) =>
                /\ replies' = replies
                /\ tables' = tables]_vars

\* C30: a reply sent to a call whose receiver was dropped is discarded and
\* the loop keeps running, whatever the kind of the call.
C30_ReplyToAbandonedCallerDiscarded ==
    [][\A c \in abandoned :
          Len(replies'[c]) > Len(replies[c]) => LoopAlive']_vars

\* C35: a StartListening command is answered in the step that handles it,
\* with success or with the bind error, to the call that sent it and to no
\* other; the four pending tables are left as they were, and the loop is
\* back at its select! afterwards, after a bind error too.
C35_StartListeningAnsweredInStep ==
    [][\A ok \in BOOLEAN :
          CmdStartListening(ok) =>
             LET c == Head(cmdQueue).id IN
             /\ replies[c] = <<>>
             /\ replies' = [replies EXCEPT
                              ![c] = <<IF ok THEN ReplyOk ELSE ReplyErr("bind")>>]
             /\ tables' = tables
             /\ c \notin sinkDropped'
             /\ loopPc' = "select"]_vars

\* a bind error was answered to its caller and the loop then answered a
\* later StartListening with success
C35_Witness ==
    \E c, d \in Cmds :
       /\ c < d
       /\ cmd[c].kind = "StartListening"
       /\ cmd[d].kind = "StartListening"
       /\ replies[c] = <<ReplyErr("bind")>>
       /\ replies[d] = <<ReplyOk>>
       /\ LoopAlive

\* C34: handling RespondLLM or GossipMessage sends no reply to any caller,
\* drops no reply sender and changes no pending table; when the response
\* cannot be sent or the publish is refused, nothing is recorded and the
\* loop is at its select! afterwards as after a success.
C34_FireAndForgetNeverReplies ==
    [][/\ \A ok \in BOOLEAN :
            CmdRespondLLM(ok) =>
               /\ replies' = replies
               /\ sinkDropped' = sinkDropped
               /\ tables' = tables
               /\ loopPc' = "select"
               /\ ~ok => sentResp' = sentResp
       /\ \A t \in GossipTopics, d \in Payloads, n \in Seqnos, ok \in BOOLEAN :
            CmdGossipMessage(t, d, n, ok) =>
               /\ replies' = replies
               /\ sinkDropped' = sinkDropped
               /\ tables' = tables
               /\ loopPc' = "select"
               /\ ~ok => duplicate_cache' = duplicate_cache]_vars

\* the response to the first request could not be sent, the loop went on to
\* send the response to the second, and a message was published
C34_Witness ==
    /\ sentResp[1] = NoBody
    /\ sentResp[2] # NoBody
    /\ duplicate_cache # {}
    /\ loopPc = "select"

\* C31: a rendezvous discovery is issued only by the tick of a loop that has
\* a rendezvous peer, to that peer, with the configured namespace and the
\* stored cookie; the cookie is None until a Discovered event is handled,
\* becomes the cookie of each Discovered event handled, and no other step
\* changes it.
C31_TickDiscoversWithStoredCookie ==
    /\ cookie = NoCookie
    /\ [](\A i \in DOMAIN rendezvous_calls :
             rendezvous_calls[i].op = "discover" =>
                /\ rendezvous_point # NoPeer
                /\ rendezvous_calls
                      = <<DiscoverCall(namespace, cookie, rendezvous_point)>>)
    /\ [][DiscoverTick =>
             /\ rendezvous_point # NoPeer
             /\ rendezvous_calls'
                   = <<DiscoverCall(namespace, cookie, rendezvous_point)>>]_vars
    /\ [][\A ck \in Cookies, registrations \in RegistrationLists,
            failAt \in 0..MaxDials :
             EvDiscovered(ck, registrations, failAt) => cookie' = ck]_vars
    /\ [][cookie' # cookie =>
             \E ck \in Cookies, registrations \in RegistrationLists,
                failAt \in 0..MaxDials :
                EvDiscovered(ck, registrations, failAt)]_vars

\* a tick replayed the cookie of the latest discovery in the configured
\* namespace
C31_Witness ==
    /\ cookie = 2
    /\ namespace = "other"
    /\ rendezvous_calls = <<DiscoverCall("other", 2, rendezvous_point)>>

\* C32: handling a Discovered event replaces the stored cookie by the
\* event's and issues, for every registration and every address it lists,
\* in order, exactly one dial: to the address followed by the registration's
\* /p2p/<peer id> when the address does not end with it, to the address as
\* listed when it does.
C32_DiscoveredDialsEveryAddress ==
    [][\A ck \in Cookies, registrations \in RegistrationLists,
         failAt \in 0..MaxDials :
          EvDiscovered(ck, registrations, failAt) =>
             /\ cookie' = ck
             /\ rendezvous_calls' = DiscoveredDials(registrations)]_vars

\* C38: run handles no command and no swarm event before its startup, and
\* the startup makes, in this order, add_external_address for a configured
\* external address, a dial of a configured rendezvous address, and a
\* rendezvous registration in the namespace binary-souls with a configured
\* rendezvous peer, then enters the loop; with none of the three configured
\* it makes no call and changes nothing.
C38_StartupInOrder ==
    /\ [](loopPc = "start" =>
             /\ \A c \in Cmds : replies[c] = <<>>
             /\ tables = <<EmptyMap, EmptyMap, EmptyMap, EmptyMap>>
             /\ cookie = NoCookie
             /\ rendezvous_calls = <<>>)
    /\ [][\A dialOk, registerOk \in BOOLEAN :
             RunStartup(dialOk, registerOk) =>
                /\ loopPc' = "select"
                /\ rendezvous_calls' =
                      (IF external_address # NoAddr
                       THEN <<AddExternalAddressCall(external_address)>>
                       ELSE <<>>)
                      \o (IF rendezvous_point_address # NoAddr
                          THEN <<DialCall(rendezvous_point_address)>>
                          ELSE <<>>)
                      \o (IF rendezvous_point # NoPeer
                          THEN <<RegisterCall(NAMESPACE, rendezvous_point)>>
                          ELSE <<>>)
                /\ <<tables, replies, sinkDropped, cmdQueue, cookie,
                     configVars>>' =
                      <<tables, replies, sinkDropped, cmdQueue, cookie,
                        configVars>>]_vars

\* C36: handling a swarm event of an arm that only logs (UPnP, AutoNAT,
\* relay, ping, identify Sent / Pushed / Error, the listener and
\* external-address events, the gossipsub notifications, the catch-all)
\* leaves the four pending tables, the cookie and the rendezvous
\* configuration as they were, sends no reply, drops no reply sender, puts
\* no event into the event channel, and the loop is at its select! again.
C36_ObservedEventsChangeNothing ==
    [][EvObserved =>
          /\ tables' = tables
          /\ cookie' = cookie
          /\ configVars' = configVars
          /\ replies' = replies
          /\ sinkDropped' = sinkDropped
          /\ <<evSlot, evName, nextChan>>' = <<evSlot, evName, nextChan>>
          /\ cmdQueue' = cmdQueue
          /\ loopPc' = "select"]_vars

\* the loop is at its select! with senders waiting in two of the tables,
\* the latest step having made no rendezvous call
C36_Witness ==
    /\ loopPc = "select"
    /\ pending_get_providers # EmptyMap
    /\ pending_dial # EmptyMap
    /\ rendezvous_register = NoPeer
    /\ routing_table # {}

\* C37: the loop takes the return of the closed command channel only when
\* every handle is dropped and every command that was put into the channel
\* has been taken and handled; the return drops every sender waiting in the
\* four tables and sends nothing; and once run has returned, no command and
\* no swarm event is handled and no reply is sent.
C37_ClosedChannelEndsLoopAfterDrain ==
    /\ [][LoopClosed =>
             /\ handlesDropped
             /\ cmdQueue = <<>>
             /\ \A c \in Cmds : cmd[c] # NoCmd => Handled(c)
             /\ loopPc' = "returned"
             /\ tables' = <<EmptyMap, EmptyMap, EmptyMap, EmptyMap>>
             /\ sinkDropped' = sinkDropped
                   \cup Range(pending_dial) \cup Range(pending_start_providing)
                   \cup Range(pending_get_providers) \cup Range(pending_request)
             /\ replies' = replies]_vars
    /\ [][loopPc = "returned" =>
             /\ loopPc' = "returned"
             /\ <<tables, replies, sinkDropped, cmdQueue, libVars, sentResp,
                  evSlot, nextChan, cookie, routing_table>>' =
                   <<tables, replies, sinkDropped, cmdQueue, libVars, sentResp,
                     evSlot, nextChan, cookie, routing_table>>]_vars

\* a command left in the channel by a dropped call was handled, its sender
\* waited in a table, and the loop, never cancelled, returned on the closed
\* channel and dropped it
C37_Witness ==
    /\ loopPc = "returned"
    /\ handlesDropped
    /\ ~cancelled
    /\ \E c \in abandoned : Handled(c) /\ c \in sinkDropped

\* C33: at every point a peer is an explicit gossipsub peer exactly when the
\* latest mDNS event that listed it was a Discovered; and handling an mDNS
\* event changes nothing of the loop but the explicit peers: no table, no
\* reply, no sender, no channel, no cookie, no routing-table entry.
C33_ExplicitPeersFollowMdns ==
    /\ [](\A p \in Peers :
             p \in explicit_peers <=> mdns_latest[p] = "discovered")
    /\ [][(\E list \in MdnsLists :
              EvMdnsDiscovered(list) \/ EvMdnsExpired(list)) =>
             /\ loopPc' = "select"
             /\ <<tables, replies, sinkDropped, cmdQueue, libVars, appVars,
                  cookie, routing_table, subscribed, gossipVars,
                  configVars>>' =
                   <<tables, replies, sinkDropped, cmdQueue, libVars, appVars,
                     cookie, routing_table, subscribed, gossipVars,
                     configVars>>]_vars

\* peer 1 was discovered and has expired, peer 2 is discovered, while a Dial
\* is pending
C33_Witness ==
    /\ mdns_latest[1] = "expired"
    /\ explicit_peers = {2}
    /\ pending_dial # EmptyMap

\* C39: subscribing to an additional topic that is already subscribed
\* succeeds, with the library reporting that nothing was added, and leaves
\* the set of subscribed topics equal to the set after the first
\* subscription; a first subscription adds the topic and nothing else.
C39_SubscribeIdempotent ==
    [][\A topic \in TopicNames :
          AsnSubscribe(topic) =>
             /\ topic \in subscribed =>
                   /\ subscribed' = subscribed
                   /\ last_subscribe' = <<topic, "Ok(false)">>
             /\ topic \notin subscribed =>
                   /\ subscribed' = subscribed \cup {topic}
                   /\ last_subscribe' = <<topic, "Ok(true)">>]_vars

\* a topic was subscribed a second time, on a bootstrapped behaviour with
\* another additional topic
C39_Witness ==
    /\ last_subscribe = <<"alerts", "Ok(false)">>
    /\ subscribed = {EveryoneTopic, CapabilitiesTopic, "alerts", "news"}

\* C40: shutdown sets the kademlia mode to None and removes the everyone and
\* capabilities topics from the subscriptions and no other; so after a
\* shutdown the behaviour is subscribed to exactly the additional topics it
\* was subscribed to through subscribe, and a shutdown of a behaviour that
\* was never bootstrapped leaves the subscriptions as they were.
C40_ShutdownUndoesBootstrapOnly ==
    /\ [][AsnShutdown =>
             /\ kademlia_mode' = "None"
             /\ subscribed' = subscribed \ {EveryoneTopic, CapabilitiesTopic}
             /\ subscribed' = additional_topics
             /\ CapabilitiesTopic \notin subscribed =>
                   subscribed' = subscribed]_vars
    /\ [](kademlia_mode = "None" => subscribed = additional_topics)

\* a behaviour with two additional topics was bootstrapped and shut down
C40_Witness ==
    /\ kademlia_mode = "None"
    /\ last_subscribe[1] = CapabilitiesTopic
    /\ subscribed = {"alerts", "news"}

====
